---- MODULE Spec2Model ----
(***************************************************************************)
(* A model of the Language Teacher backend (FastAPI + SQLAlchemy):         *)
(*   - the analysis services (services/llama_analysis.py,                  *)
(*     services/gpt_analysis.py) and POST /api/test/analyze;               *)
(*   - the protected HTTP endpoints of app/main.py;                        *)
(*   - ConversationService and AuthService.                                *)
(* Python exceptions are values: every modelled call returns a record with *)
(* an "exc" field ("none" when it returned), and try/except is the test of *)
(* that field the handler in the source makes.                             *)
(***************************************************************************)
EXTENDS Integers, Sequences, FiniteSets, Bags, TLC

VARIABLES
    areq,           \* the analysis call being made (service call or test endpoint)
    ares,           \* its outcome
    conversations,  \* the rows of table conversations
    evaluations,    \* the rows of table conversation_evaluations
    uploads,        \* the files under uploads/: path, and whether written
    rows,           \* the number of rows inserted so far (ids, created_at)
    http,           \* the last response of a protected endpoint
    svc,            \* the last return of a ConversationService call
    pending,        \* the bag of the calls made: a frame for each coroutine
                    \* suspended at an await, Done for each call that ended
    users,          \* the rows of table users
    clock,          \* datetime.utcnow(), in ticks
    authres,        \* the last response of /api/auth/register or /login
    tok,            \* the token a client holds
    tokres          \* the last return of a token function of AuthService

analysisVars == <<areq, ares>>
dbVars == <<conversations, evaluations, uploads, rows>>
authVars == <<users, clock, authres>>
tokenVars == <<tok, tokres>>
vars == <<areq, ares, conversations, evaluations, uploads, rows, http, svc, pending,
          users, clock, authres, tok, tokres>>

(***************************************************************************)
(* Bounds of the model.                                                    *)
(***************************************************************************)
MaxWords == 11
MaxRows == 3
MaxClock == 2
MaxEvals == 12
MaxRequests == 3

(***************************************************************************)
(* Transcripts: strings over a word character and the space.               *)
(***************************************************************************)
RECURSIVE Plain(_)
Plain(n) ==
    IF n = 0 THEN <<>>
    ELSE IF n = 1 THEN <<"w">>
    ELSE Plain(n - 1) \o <<" ", "w">>

RECURSIVE Padded(_)
Padded(n) ==
    IF n = 0 THEN <<" ">>
    ELSE Padded(n - 1) \o <<"w", "w", " ", " ">>

Transcripts == {Plain(n) : n \in 0..MaxWords} \cup {Padded(n) : n \in 0..MaxWords}

\* The two transcripts sent along with the structured model replies.
ShortTranscript == Plain(1)

\* str.split(): the maximal runs of non-whitespace characters.
RECURSIVE SplitFrom(_, _, _)
SplitFrom(t, i, cur) ==
    IF i > Len(t)
    THEN (IF cur = <<>> THEN <<>> ELSE <<cur>>)
    ELSE IF t[i] = " "
         THEN (IF cur = <<>>
               THEN SplitFrom(t, i + 1, <<>>)
               ELSE <<cur>> \o SplitFrom(t, i + 1, <<>>))
         ELSE SplitFrom(t, i + 1, Append(cur, t[i]))

Split(t) == SplitFrom(t, 1, <<>>)

(***************************************************************************)
(* JSON values as the model reply carries them.                            *)
(***************************************************************************)
JNum(n) == [t |-> "num", v |-> n]

ScoreInputs ==
    {[t |-> "absent", v |-> 0], [t |-> "str", v |-> 0],
     JNum(-1), JNum(10), JNum(21), JNum(26)}
FeedbackInputs == {"absent", "dict_full", "dict_empty", "str"}
LevelInputs == {"absent", "B2"}

NoField == [t |-> "absent", v |-> 0]

LlmReply(kind, g, v, f, c, lvl, fb) ==
    [kind |-> kind, grammar_score |-> g, vocabulary_score |-> v,
     fluency_score |-> f, comprehension_score |-> c,
     proficiency_level |-> lvl, detailed_feedback |-> fb]

\* The model call raises, or returns text that is no JSON, or JSON that is
\* no object.
LlmPlain ==
    {LlmReply(k, NoField, NoField, NoField, NoField, "absent", "absent") :
        k \in {"raises", "text", "json_nonobject"}}

\* The model call returns a JSON object.
LlmObjects ==
    {LlmReply("json_object", g, v, f, c, lvl, fb) :
        g \in ScoreInputs, v \in ScoreInputs, f \in ScoreInputs,
        c \in ScoreInputs, lvl \in LevelInputs, fb \in FeedbackInputs}

\* A few objects, for the endpoints.
LlmFew ==
    LlmPlain \cup
    {LlmReply("json_object", JNum(21), JNum(10), JNum(10), JNum(10), "B2", "dict_full"),
     LlmReply("json_object", JNum(10), JNum(21), JNum(10), JNum(10), "B2", "dict_full"),
     LlmReply("json_object", JNum(10), JNum(10), JNum(10), JNum(10), "absent", "str")}

(***************************************************************************)
(* LLaMAAnalysisService                                                    *)
(***************************************************************************)
Min2(a, b) == IF a < b THEN a ELSE b
Max2(a, b) == IF a > b THEN a ELSE b

\* The base score with every threshold one word later.
BaseScoreMutInclusive(word_count) ==
    IF word_count <= 2 THEN 1
    ELSE IF word_count <= 5 THEN 3
    ELSE IF word_count <= 10 THEN 8
    ELSE 15

\* _fallback_evaluation: the base score from the word count.
BaseScore(word_count) ==
    IF word_count < 2 THEN 1
    ELSE IF word_count < 5 THEN 3
    ELSE IF word_count < 10 THEN 8
    ELSE 15

Evaluation(exc, g, v, f, c, overall, lvl, fb, method) ==
    [exc |-> exc, grammar_score |-> g, vocabulary_score |-> v,
     fluency_score |-> f, comprehension_score |-> c, overall_score |-> overall,
     proficiency_level |-> lvl, detailed_feedback |-> fb,
     evaluation_method |-> method]

\* _fallback_evaluation counting characters instead of words.
FallbackEvaluationMutChars(transcript) ==
    LET word_count == Len(transcript)
        base_score == BaseScore(word_count)
    IN  Evaluation("none", base_score, base_score, base_score, base_score,
                   base_score * 4,
                   IF word_count < 5 THEN "A1" ELSE "B1",
                   "dict_fallback", "Fallback")

\* LLaMAAnalysisService._fallback_evaluation
FallbackEvaluation(transcript) ==
    LET word_count == Len(Split(transcript))
        base_score == BaseScore(word_count)
    IN  Evaluation("none", base_score, base_score, base_score, base_score,
                   base_score * 4,
                   IF word_count < 5 THEN "A1" ELSE "B1",
                   "dict_fallback", "Fallback")

\* evaluation_data.get(key, 0)
GetOr0(field) == IF field.t = "absent" THEN JNum(0) ELSE field

\* max(0, min(25, x)); a str raises TypeError in min().
Clamp(x) == Max2(0, Min2(25, x))

\* The try body of _llm_based_evaluation, lines 170-193.
LlmTryBody(llm) ==
    LET g == GetOr0(llm.grammar_score)
        v == GetOr0(llm.vocabulary_score)
        f == GetOr0(llm.fluency_score)
        c == GetOr0(llm.comprehension_score)
        none == Evaluation("none", 0, 0, 0, 0, 0, "A1", "dict_empty", "LLM-based")
    IN  IF llm.kind = "raises" THEN [none EXCEPT !.exc = "Exception"]
        ELSE IF llm.kind = "text" THEN [none EXCEPT !.exc = "JSONDecodeError"]
        ELSE IF llm.kind = "json_nonobject" THEN [none EXCEPT !.exc = "AttributeError"]
        ELSE IF \E x \in {g, v, f, c} : x.t # "num"
             THEN [none EXCEPT !.exc = "TypeError"]
        ELSE Evaluation("none", Clamp(g.v), Clamp(v.v), Clamp(f.v), Clamp(c.v),
                        Clamp(g.v) + Clamp(v.v) + Clamp(f.v) + Clamp(c.v),
                        IF llm.proficiency_level = "absent" THEN "A1"
                        ELSE llm.proficiency_level,
                        IF llm.detailed_feedback = "absent" THEN "dict_empty"
                        ELSE llm.detailed_feedback,
                        "LLM-based")

\* _llm_based_evaluation: `except json.JSONDecodeError` inside
\* `except Exception`, both returning the fallback evaluation.
LlmBasedEvaluation(transcript, llm) ==
    LET r == LlmTryBody(llm)
    IN  IF r.exc = "none" THEN r
        ELSE IF r.exc = "JSONDecodeError" THEN FallbackEvaluation(transcript)
        ELSE FallbackEvaluation(transcript)

AnalysisResult(exc, overall, g, v, f, p, c, lvl, strengths, fb) ==
    [exc |-> exc, overall_score |-> overall, grammar_score |-> g,
     vocabulary_score |-> v, fluency_score |-> f, pronunciation_score |-> p,
     comprehension_score |-> c, proficiency_level |-> lvl,
     strengths |-> strengths, detailed_feedback |-> fb]

\* The result of analyze_conversation's except branch, lines 287-301.
BasicResult ==
    AnalysisResult("none", 5, 1, 1, 1, 0, 2, "A1",
                   "Attempted communication", "dict_error")

\* detailed_feedback.get("strengths", ["Communication attempted"])
Strengths(fb) ==
    IF fb = "dict_full" THEN "from_llm"
    ELSE IF fb = "dict_fallback" THEN "Attempted communication"
    ELSE "Communication attempted"

IsDict(fb) == fb \in {"dict_full", "dict_empty", "dict_fallback", "dict_error"}

\* The AnalysisResult built from an evaluation dict, lines 259-282;
\* detailed_feedback.get raises AttributeError on a value that is no dict.
ResultOf(e) ==
    IF ~IsDict(e.detailed_feedback)
    THEN [BasicResult EXCEPT !.exc = "AttributeError"]
    ELSE AnalysisResult("none", e.overall_score, e.grammar_score,
                        e.vocabulary_score, e.fluency_score, 0,
                        e.comprehension_score, e.proficiency_level,
                        Strengths(e.detailed_feedback), e.detailed_feedback)

\* The try body of analyze_conversation, lines 255-282.
AnalyzeTryBody(transcript, llm) ==
    LET e == LlmBasedEvaluation(transcript, llm)
    IN  IF e.exc # "none"
        THEN [BasicResult EXCEPT !.exc = e.exc]
        ELSE ResultOf(e)

\* analyze_conversation without its except branch.
LlamaAnalyzeMutNoExcept(transcript, llm) == AnalyzeTryBody(transcript, llm)

\* LLaMAAnalysisService.analyze_conversation
LlamaAnalyze(transcript, llm) ==
    LET r == AnalyzeTryBody(transcript, llm)
    IN  IF r.exc = "none" THEN r ELSE BasicResult

(***************************************************************************)
(* AnalysisResponse (schemas/conversation.py): the Field(ge=, le=) bounds. *)
(***************************************************************************)
ValidAnalysisResponse(r) ==
    /\ 0 <= r.overall_score /\ r.overall_score <= 100
    /\ 0 <= r.grammar_score /\ r.grammar_score <= 25
    /\ 0 <= r.vocabulary_score /\ r.vocabulary_score <= 20
    /\ 0 <= r.fluency_score /\ r.fluency_score <= 20
    /\ 0 <= r.pronunciation_score /\ r.pronunciation_score <= 15
    /\ 0 <= r.comprehension_score /\ r.comprehension_score <= 20

(***************************************************************************)
(* GPTAnalysisService                                                      *)
(***************************************************************************)
GptReplies == {"raises", "json", "bad_json", "text", "no_content"}

\* GPTAnalysisService.__init__: the client exists when the openai package
\* could be imported and an API key was given.
GptClient(settings) == settings.openai_available /\ settings.api_key

GptResult(exc, parsed_by) == [exc |-> exc, parsed_by |-> parsed_by]

\* _get_gpt_analysis followed by _parse_gpt_response.
GptParse(gpt) ==
    IF gpt = "raises" THEN GptResult("APIError", "none")
    ELSE IF gpt = "no_content" THEN GptResult("TypeError", "none")
    ELSE IF gpt = "json" THEN GptResult("none", "json")
    ELSE GptResult("none", "fallback_parse")

\* GPTAnalysisService.analyze_conversation: the except branch re-raises.
GptAnalyze(settings, gpt) ==
    IF ~GptClient(settings) THEN GptResult("RuntimeError", "none")
    ELSE GptParse(gpt)

(***************************************************************************)
(* POST /api/test/analyze                                                  *)
(***************************************************************************)
SettingsSet ==
    [use_gpt : BOOLEAN, api_key : BOOLEAN, openai_available : BOOLEAN]

GptSelected(settings) == settings.use_gpt /\ settings.api_key

NoResult == [exc |-> "none", parsed_by |-> "none"]

Outcome(op, status, exc, result) ==
    [op |-> op, status |-> status, exc |-> exc, result |-> result]

Pending == Outcome("pending", 0, "none", NoResult)

TestAnalyzeOutcome(r) ==
    LET result == IF GptSelected(r.settings)
                  THEN GptAnalyze(r.settings, r.gpt)
                  ELSE LlamaAnalyze(r.transcript, r.llm)
    IN  IF result.exc # "none"
        THEN Outcome("test_analyze", 500, result.exc, NoResult)
        ELSE Outcome("test_analyze", 200, "none", result)

ServiceRequests ==
    {[op |-> "llama_analyze", transcript |-> t, llm |-> l] :
        t \in Transcripts, l \in LlmPlain}
    \cup
    {[op |-> "llama_analyze", transcript |-> t, llm |-> l] :
        t \in {ShortTranscript, Padded(10)}, l \in LlmObjects}

TestRequests ==
    {[op |-> "test_analyze", settings |-> s, gpt |-> g, transcript |-> t, llm |-> l] :
        s \in SettingsSet, g \in GptReplies,
        t \in {ShortTranscript, Padded(10)}, l \in LlmFew}

\* A call of llama_service.analyze_conversation.
LlamaAnalyzeConversation ==
    /\ areq.op = "llama_analyze"
    /\ ares = Pending
    /\ LET r == LlamaAnalyze(areq.transcript, areq.llm)
       IN  ares' = IF r.exc = "none"
                   THEN Outcome("llama_analyze", 0, "none", r)
                   ELSE Outcome("llama_analyze", 0, r.exc, NoResult)
    /\ UNCHANGED <<areq, dbVars, http, svc, pending, authVars, tokenVars>>

\* A request to POST /api/test/analyze.
TestAnalyze ==
    /\ areq.op = "test_analyze"
    /\ ares = Pending
    /\ ares' = TestAnalyzeOutcome(areq)
    /\ UNCHANGED <<areq, dbVars, http, svc, pending, authVars, tokenVars>>

NoCall == [op |-> "none", status |-> 0]

\* No token: what Optional[str] is when it is None.
NoToken == [key |-> "none"]

(***************************************************************************)
(* Coroutines.  A call that awaits more than once is suspended between its *)
(* awaits, and the event loop runs the other requests meanwhile.  A frame  *)
(* is what a suspended coroutine holds: the function, the await it is at,  *)
(* the caller's token (NoToken for a direct call of the service) and its   *)
(* locals.  An except branch that awaits db.rollback() is an await like    *)
(* the others: the coroutine that caught an exception is suspended at pc   *)
(* "rollback" with what it caught, and the rollback may raise in its turn. *)
(* A behaviour holds at most MaxRequests calls.                            *)
(***************************************************************************)

Frame(op, pc, token, conversation_id, user_id, local) ==
    [op |-> op, pc |-> pc, token |-> token, conversation_id |-> conversation_id,
     user_id |-> user_id, local |-> local]

\* A call that ran to its end.
Done == Frame("done", "done", NoToken, 0, "", [kind |-> "none"])

\* The suspended coroutines.
Suspended == BagToSet(pending) \ {Done}

InitDb ==
    /\ conversations = {}
    /\ evaluations = {}
    /\ uploads = {}
    /\ rows = 0
    /\ http = NoCall
    /\ svc = NoCall
    /\ pending = EmptyBag
    /\ users = {}
    /\ clock = 1
    /\ authres = NoCall
    /\ tok = NoToken
    /\ tokres = NoCall

InitAnalysis ==
    /\ areq \in ServiceRequests \cup TestRequests
    /\ ares = Pending
    /\ InitDb

NextAnalysis == LlamaAnalyzeConversation \/ TestAnalyze

SpecAnalysis == InitAnalysis /\ [][NextAnalysis]_vars

(***************************************************************************)
(* Claims about the analysis services (checked under SpecAnalysis).        *)
(***************************************************************************)

\* C1: POST /api/test/analyze with GPT selected: when the GPT API is
\* unavailable (the call raises, or the client was never initialised) the
\* request completes with status 200 and the rule-based fallback result.
C1_GptUnavailableFallsBack ==
    (/\ ares.op = "test_analyze"
     /\ GptSelected(areq.settings)
     /\ (areq.gpt = "raises" \/ ~GptClient(areq.settings)))
    => (/\ ares.status = 200
        /\ ares.result = ResultOf(FallbackEvaluation(areq.transcript)))

\* The scores an LLM-based result carries for a reply: each absent score is
\* 0, each score is cut to 0..25, the overall score is their sum.
Cut25(x) == IF x < 0 THEN 0 ELSE IF x > 25 THEN 25 ELSE x
ScoreOf(field) == IF field.t = "absent" THEN 0 ELSE Cut25(field.v)

IsLlmBasedResult(r, llm) ==
    /\ llm.kind = "json_object"
    /\ \A x \in {llm.grammar_score, llm.vocabulary_score, llm.fluency_score,
                  llm.comprehension_score} : x.t # "str"
    /\ llm.detailed_feedback # "str"
    /\ r.grammar_score = ScoreOf(llm.grammar_score)
    /\ r.vocabulary_score = ScoreOf(llm.vocabulary_score)
    /\ r.fluency_score = ScoreOf(llm.fluency_score)
    /\ r.comprehension_score = ScoreOf(llm.comprehension_score)
    /\ r.overall_score = r.grammar_score + r.vocabulary_score
                            + r.fluency_score + r.comprehension_score
    /\ r.pronunciation_score = 0

\* C2: LLaMAAnalysisService.analyze_conversation never raises; whatever the
\* model call does, it returns the LLM-based result, the word-count
\* fallback result or the fixed basic result (overall 5, level A1).
C2_LlamaAnalyzeNeverRaises ==
    ares.op = "llama_analyze" =>
        /\ ares.exc = "none"
        /\ \/ IsLlmBasedResult(ares.result, areq.llm)
           \/ ares.result = ResultOf(FallbackEvaluation(areq.transcript))
           \/ (ares.result = BasicResult
               /\ ares.result.overall_score = 5
               /\ ares.result.proficiency_level = "A1")

\* The reply is an object with numeric scores and a detailed_feedback that
\* is no dict: the except branch of analyze_conversation has returned.
C2_Witness ==
    /\ ares.op = "llama_analyze"
    /\ areq.llm.kind = "json_object"
    /\ areq.llm.grammar_score = JNum(21)
    /\ areq.llm.detailed_feedback = "str"
    /\ ares.exc = "none"
    /\ ares.result = BasicResult

\* C3: every AnalysisResult that analyze_conversation returns is within the
\* bounds of AnalysisResponse.
C3_ResultWithinResponseBounds ==
    (ares.op = "llama_analyze" /\ ares.exc = "none")
        => ValidAnalysisResponse(ares.result)


(***************************************************************************)
(* JWT bearer tokens (python-jose) and the token functions of AuthService. *)
(* A token is what jwt.decode can find out about the presented string: the *)
(* key and algorithm that signed it, whether its exp has passed, and its   *)
(* payload ("absent" for a key the payload does not hold).                 *)
(***************************************************************************)
SecretKey == "JWT_SECRET_KEY"
Algorithm == "HS256"

UserIds == {"u1", "u2"}
Roles == {"student", "teacher"}

Token(key, alg, expired, type, sub, email, role) ==
    [key |-> key, alg |-> alg, expired |-> expired, type |-> type,
     sub |-> sub, email |-> email, role |-> role]

BaseToken == Token(SecretKey, Algorithm, FALSE, "access", "u1", "e1", "student")

GoodTokens ==
    {Token(SecretKey, Algorithm, FALSE, "access", u, "e1", r) :
        u \in UserIds, r \in Roles}

BadTokens ==
    {[BaseToken EXCEPT !.key = "OTHER_KEY"],
     [BaseToken EXCEPT !.alg = "HS512"],
     [BaseToken EXCEPT !.expired = TRUE],
     [BaseToken EXCEPT !.type = "refresh"],
     [BaseToken EXCEPT !.type = "absent"],
     [BaseToken EXCEPT !.sub = "absent"],
     [BaseToken EXCEPT !.sub = ""]}

\* The Authorization headers sent to the endpoints: two students, a teacher
\* and every token that must be refused.
EndpointTokens ==
    {BaseToken, [BaseToken EXCEPT !.sub = "u2"],
     [BaseToken EXCEPT !.sub = "u2", !.role = "teacher"]} \cup BadTokens

NoPayload ==
    [ok |-> FALSE, type |-> "absent", sub |-> "absent", email |-> "absent",
     role |-> "absent"]

\* AuthService.verify_token: jwt.decode, None on JWTError.
VerifyToken(token) ==
    IF token.key = SecretKey /\ token.alg = Algorithm /\ ~token.expired
    THEN [ok |-> TRUE, type |-> token.type, sub |-> token.sub,
          email |-> token.email, role |-> token.role]
    ELSE NoPayload

NoUser == [ok |-> FALSE, id |-> "absent", email |-> "absent", role |-> "absent"]

\* get_user_from_token without the test of the token type.
GetUserFromTokenMutAnyType(token) ==
    LET payload == VerifyToken(token)
    IN  IF ~payload.ok THEN NoUser
        ELSE IF payload.sub \in {"absent", ""} THEN NoUser
        ELSE [ok |-> TRUE, id |-> payload.sub, email |-> payload.email,
              role |-> payload.role]

\* AuthService.get_user_from_token
GetUserFromToken(token) ==
    LET payload == VerifyToken(token)
    IN  IF ~payload.ok \/ payload.type # "access" THEN NoUser
        ELSE IF payload.sub \in {"absent", ""} THEN NoUser
        ELSE [ok |-> TRUE, id |-> payload.sub, email |-> payload.email,
              role |-> payload.role]

\* The dependency get_current_user: the HTTPException(401) raised in the
\* try is caught by `except Exception` and raised again as a 401.
GetCurrentUser(token) ==
    LET user == GetUserFromToken(token)
        raised == IF ~user.ok THEN "HTTPException" ELSE "none"
    IN  IF raised # "none"
        THEN [exc |-> "HTTPException", status_code |-> 401, user |-> NoUser]
        ELSE [exc |-> "none", status_code |-> 0, user |-> user]

(***************************************************************************)
(* ConversationService over the tables.                                    *)
(***************************************************************************)
\* The column default of Conversation.status (app/models, not in src/).
DefaultStatus == "created"

\* .limit(10) of the trend query
TrendLimit == 10

ConversationIds == 1..MaxRows

\* completed_at: 0 is None.
NewConversation(id, user_id, created_at) ==
    [id |-> id, user_id |-> user_id, created_at |-> created_at,
     status |-> DefaultStatus, transcript |-> <<"None">>,
     audio_file_url |-> <<>>, completed_at |-> 0]

\* Result.scalar_one_or_none(): the row, None, or MultipleResultsFound.
ScalarOneOrNone(S) ==
    [exc |-> IF Cardinality(S) > 1 THEN "MultipleResultsFound" ELSE "none",
     found |-> IF Cardinality(S) = 1 THEN S ELSE {}]

\* order_by(desc(created_at)) over rows with distinct created_at
RECURSIVE OrderByCreatedAsc(_)
OrderByCreatedAsc(S) ==
    IF S = {} THEN <<>>
    ELSE LET first == CHOOSE x \in S : \A y \in S : x.created_at <= y.created_at
         IN  <<first>> \o OrderByCreatedAsc(S \ {first})

RECURSIVE OrderByCreatedDesc(_)
OrderByCreatedDesc(S) ==
    IF S = {} THEN <<>>
    ELSE LET first == CHOOSE x \in S : \A y \in S : y.created_at <= x.created_at
         IN  <<first>> \o OrderByCreatedDesc(S \ {first})

\* get_conversation's query with the user_id condition left out.
GetConversationQueryMutAnyOwner(conversation_id, user_id) ==
    {c \in conversations : c.id = conversation_id}

\* The query of get_conversation, lines 61-66.
GetConversationQuery(conversation_id, user_id) ==
    {c \in conversations : c.id = conversation_id /\ c.user_id = user_id}

\* ConversationService.get_conversation: the row or None ({}); None when
\* the query raises.
SvcGetConversation(conversation_id, user_id, db_ok) ==
    IF ~db_ok THEN {}
    ELSE LET r == ScalarOneOrNone(GetConversationQuery(conversation_id, user_id))
         IN  IF r.exc # "none" THEN {} ELSE r.found

\* ConversationService.get_user_conversations
SvcGetUserConversations(user_id, db_ok) ==
    IF ~db_ok THEN <<>>
    ELSE OrderByCreatedDesc({c \in conversations : c.user_id = user_id})

\* ConversationService.get_conversation_evaluation
SvcGetConversationEvaluation(conversation_id, db_ok) ==
    IF ~db_ok THEN {}
    ELSE LET r == ScalarOneOrNone({e \in evaluations :
                                      e.conversation_id = conversation_id})
         IN  IF r.exc # "none" THEN {} ELSE r.found

\* The query of delete_conversation, lines 235-240.
DeleteConversationQuery(conversation_id, user_id) ==
    {c \in conversations : c.id = conversation_id /\ c.user_id = user_id}

RECURSIVE SumOverall(_)
SumOverall(S) ==
    IF S = {} THEN 0
    ELSE LET e == CHOOSE x \in S : TRUE
         IN  e.overall_score + SumOverall(S \ {e})

\* round(average, 2), in hundredths of a point: Python rounds the tie (the
\* average an exact multiple of 1/8) to the even hundredth; `or 0.0` when
\* there is no row.
AverageX100(S) ==
    IF S = {} THEN 0
    ELSE LET n == Cardinality(S)
             q == (100 * SumOverall(S)) \div n
             r == (100 * SumOverall(S)) % n
         IN  IF 2 * r < n THEN q
             ELSE IF 2 * r > n THEN q + 1
             ELSE IF q % 2 = 0 THEN q ELSE q + 1

DefaultProgress ==
    [total_conversations |-> 0, average_score_x100 |-> 0, current_level |-> "A1",
     last_conversation_date |-> 0,
     grammar_trend |-> <<>>, vocabulary_trend |-> <<>>, fluency_trend |-> <<>>,
     pronunciation_trend |-> <<>>, comprehension_trend |-> <<>>]

\* ConversationService.get_user_progress awaits five queries, one after
\* the other; pc names the query the coroutine is suspended at.
NextQuery(pc) ==
    CASE pc = "count" -> "average"
      [] pc = "average" -> "level"
      [] pc = "level" -> "last_date"
      [] pc = "last_date" -> "trend"
      [] OTHER -> "return"

\* The query at pc, run on the tables as they are now, and its result
\* stored in the local it is assigned to.
ProgressQuery(pc, user_id, progress) ==
    LET mine == {c \in conversations : c.user_id = user_id}
        joined == {e \in evaluations : \E c \in mine : c.id = e.conversation_id}
        latest == OrderByCreatedDesc(joined)
        newest == OrderByCreatedDesc(mine)
        trend_data == SubSeq(latest, 1, Min2(Len(latest), TrendLimit))
    IN  CASE pc = "count" ->
                 [progress EXCEPT !.total_conversations = Cardinality(mine)]
          [] pc = "average" ->
                 [progress EXCEPT !.average_score_x100 = AverageX100(joined)]
          [] pc = "level" ->
                 [progress EXCEPT !.current_level =
                      IF latest = <<>> \/ latest[1].proficiency_level = ""
                      THEN "A1"
                      ELSE latest[1].proficiency_level]
          [] pc = "last_date" ->
                 [progress EXCEPT !.last_conversation_date =
                      IF newest = <<>> THEN 0 ELSE newest[1].created_at]
          [] OTHER ->
                 [progress EXCEPT
                      !.grammar_trend =
                          [i \in 1..Len(trend_data) |-> trend_data[i].grammar_score],
                      !.vocabulary_trend =
                          [i \in 1..Len(trend_data) |-> trend_data[i].vocabulary_score],
                      !.fluency_trend =
                          [i \in 1..Len(trend_data) |-> trend_data[i].fluency_score],
                      !.pronunciation_trend =
                          [i \in 1..Len(trend_data) |-> trend_data[i].pronunciation_score],
                      !.comprehension_trend =
                          [i \in 1..Len(trend_data) |-> trend_data[i].comprehension_score]]

(***************************************************************************)
(* Responses and returns.  Every endpoint handler runs after the           *)
(* dependency get_current_user; its body is one try block whose `except    *)
(* Exception` raises HTTPException(500) (400 for the creation);            *)
(* http_exception_handler answers with the status code of the exception    *)
(* that left the handler.                                                  *)
(***************************************************************************)
NoBody == [kind |-> "none"]

\* raised: the status code of the HTTPException raised inside the try block
\* (0: none); ran: the handler body was entered; called: the service
\* functions the body invoked.
Http(op, token, status, raised, ran, conversation_id, user_id, called, body) ==
    [op |-> op, token |-> token, status |-> status, raised |-> raised,
     ran |-> ran, conversation_id |-> conversation_id, user_id |-> user_id,
     called |-> called, body |-> body]

\* The dependency raised: the handler is not called.
Rejected(op, token, auth) ==
    Http(op, token, auth.status_code, 0, FALSE, 0, "", {}, NoBody)

\* `except Exception as e: raise HTTPException(status_code=code, ...)`
Caught(op, token, code, raised, conversation_id, user_id, called) ==
    Http(op, token, code, raised, TRUE, conversation_id, user_id, called, NoBody)

Ok(op, token, conversation_id, user_id, called, body) ==
    Http(op, token, 200, 0, TRUE, conversation_id, user_id, called, body)

\* What a call of ConversationService returned, or the exception it raised;
\* db_ok: the last call it made on the session did not raise.
Returned(op, conversation_id, user_id, db_ok, exc, value) ==
    [op |-> op, status |-> 0, conversation_id |-> conversation_id,
     user_id |-> user_id, db_ok |-> db_ok, exc |-> exc, value |-> value]

\* A call is made and runs to its first await, where it stays suspended
\* (or to its end: Suspend(Done)).
Suspend(frame) ==
    /\ BagCardinality(pending) < MaxRequests
    /\ pending' = pending (+) SetToBag({frame})

\* The suspended coroutine f runs on to its next await, where its frame is g.
Resume(f, g) == pending' = (pending (-) SetToBag({f})) (+) SetToBag({g})

\* The number of calls in the bag b that have returned or answered (an
\* endpoint whose handler has returned is left with the exit of get_db).
Answered(b) ==
    BagCardinality([f \in {g \in BagToSet(b) : g.pc \in {"done", "close"}} |-> b[f]])

\* This step is the return of a call (svc' is what it returned) or the
\* return of a handler (http' is its response).
Responds == Answered(pending') > Answered(pending)

(***************************************************************************)
(* Calls of ConversationService (SpecService).                             *)
(***************************************************************************)
\* create_conversation(conversation_data, user_id, db) up to `await
\* db.commit()`, lines 31-42: the row is stored, or the commit raises and the
\* call enters its except branch, where it awaits the rollback.
SvcCreateConversation ==
    \E user_id \in UserIds, db_ok \in BOOLEAN :
        IF ~db_ok
        THEN /\ Suspend(Frame("create_conversation", "rollback", NoToken, 0, user_id,
                              [kind |-> "raised", exc |-> "OperationalError"]))
             /\ UNCHANGED <<analysisVars, dbVars, http, svc, authVars, tokenVars>>
        ELSE /\ rows < MaxRows
             /\ conversations' = conversations \cup
                                     {NewConversation(rows + 1, user_id, rows + 1)}
             /\ rows' = rows + 1
             /\ Suspend(Frame("create_conversation", "refresh", NoToken,
                              rows + 1, user_id, [kind |-> "none"]))
             /\ UNCHANGED <<analysisVars, evaluations, uploads, http, svc,
                            authVars, tokenVars>>

\* `await db.refresh(conversation)` and the return, lines 43-46, then for an
\* endpoint line 184 of main.py.  refresh raises InvalidRequestError when the
\* row is no longer in the table; a refresh that raises leads to the except
\* branch.
CreateConversationRefresh ==
    \E f \in Suspended :
        LET found == {c \in conversations : c.id = f.conversation_id}
        IN
        /\ f.op = "create_conversation"
        /\ f.pc = "refresh"
        /\ \E db_ok \in BOOLEAN :
             LET exc == IF ~db_ok THEN "OperationalError"
                        ELSE IF found = {} THEN "InvalidRequestError"
                        ELSE "none"
             IN  IF exc # "none"
                 THEN /\ Resume(f, [f EXCEPT !.pc = "rollback",
                                              !.local = [kind |-> "raised",
                                                         exc |-> exc]])
                      /\ UNCHANGED <<http, svc>>
                 ELSE /\ Resume(f, Done)
                      /\ IF f.token = NoToken
                         THEN /\ svc' = Returned("create_conversation",
                                                 f.conversation_id, f.user_id,
                                                 TRUE, "none", found)
                              /\ UNCHANGED http
                         ELSE /\ http' = Ok("create_conversation", f.token,
                                            f.conversation_id, "",
                                            {"create_conversation"},
                                            [kind |-> "conversation",
                                             row |-> CHOOSE c \in found : TRUE])
                              /\ UNCHANGED svc
        /\ UNCHANGED <<analysisVars, dbVars, authVars, tokenVars>>

\* The except branch of create_conversation, lines 48-51: `await
\* db.rollback()`, then the exception is raised again; a rollback that raises
\* leaves the call with its own exception instead.  What is committed stays
\* committed.  For an endpoint, main.py lines 185-186 answer 400.
CreateConversationRollback ==
    \E f \in Suspended, db_ok \in BOOLEAN :
        /\ f.op = "create_conversation"
        /\ f.pc = "rollback"
        /\ IF f.token = NoToken
           THEN /\ svc' = Returned("create_conversation", f.conversation_id,
                                   f.user_id, db_ok,
                                   IF db_ok THEN f.local.exc ELSE "OperationalError", {})
                /\ UNCHANGED http
           ELSE /\ http' = Caught("create_conversation", f.token, 400, 0,
                                  f.conversation_id, "", {"create_conversation"})
                /\ UNCHANGED svc
        /\ Resume(f, Done)
        /\ UNCHANGED <<analysisVars, dbVars, authVars, tokenVars>>

\* get_conversation(conversation_id, user_id, db)
SvcCallGetConversation ==
    \E conversation_id \in ConversationIds, user_id \in UserIds, db_ok \in BOOLEAN :
        /\ svc' = Returned("get_conversation", conversation_id, user_id, db_ok, "none",
                           SvcGetConversation(conversation_id, user_id, db_ok))
        /\ Suspend(Done)
        /\ UNCHANGED <<analysisVars, dbVars, http, authVars, tokenVars>>

\* get_user_conversations(user_id, db)
SvcCallGetUserConversations ==
    \E user_id \in UserIds, db_ok \in BOOLEAN :
        /\ svc' = Returned("get_user_conversations", 0, user_id, db_ok, "none",
                           SvcGetUserConversations(user_id, db_ok))
        /\ Suspend(Done)
        /\ UNCHANGED <<analysisVars, dbVars, http, authVars, tokenVars>>

\* delete_conversation(conversation_id, user_id, db) up to `await
\* db.delete(conversation)`, lines 235-246: the query.  False when no row is
\* found; a query that raises leads to the except branch.
SvcDeleteConversation ==
    \E conversation_id \in ConversationIds, user_id \in UserIds, db_ok \in BOOLEAN :
        LET r == ScalarOneOrNone(DeleteConversationQuery(conversation_id, user_id))
        IN  IF ~db_ok \/ r.exc # "none"
            THEN /\ Suspend(Frame("delete_conversation", "rollback", NoToken,
                                  conversation_id, user_id,
                                  [kind |-> "raised",
                                   exc |-> IF ~db_ok THEN "OperationalError"
                                           ELSE r.exc]))
                 /\ UNCHANGED <<analysisVars, dbVars, http, svc, authVars, tokenVars>>
            ELSE IF r.found = {}
            THEN /\ svc' = Returned("delete_conversation", conversation_id, user_id,
                                    TRUE, "none", FALSE)
                 /\ Suspend(Done)
                 /\ UNCHANGED <<analysisVars, dbVars, http, authVars, tokenVars>>
            ELSE /\ Suspend(Frame("delete_conversation", "delete", NoToken,
                                  conversation_id, user_id, [kind |-> "none"]))
                 /\ UNCHANGED <<analysisVars, dbVars, http, svc, authVars, tokenVars>>

\* `await db.delete(conversation)`, line 246: the row is marked as deleted in
\* the session (the rows that cascade from it are loaded, which may raise);
\* no table changes.
SvcDbDelete ==
    \E f \in Suspended, db_ok \in BOOLEAN :
        /\ f.op = "delete_conversation"
        /\ f.pc = "delete"
        /\ Resume(f, IF db_ok THEN [f EXCEPT !.pc = "commit"]
                     ELSE [f EXCEPT !.pc = "rollback",
                                    !.local = [kind |-> "raised",
                                               exc |-> "OperationalError"]])
        /\ UNCHANGED <<analysisVars, dbVars, http, svc, authVars, tokenVars>>

\* `await db.commit()` of delete_conversation and the return of True, lines
\* 247-250: the DELETE by primary key; a DELETE that matches no row is not
\* an error.  A commit that raises leads to the except branch.
SvcDeleteCommit ==
    \E f \in Suspended, db_ok \in BOOLEAN :
        /\ f.op = "delete_conversation"
        /\ f.pc = "commit"
        /\ IF db_ok
           THEN /\ conversations' = {c \in conversations : c.id # f.conversation_id}
                /\ svc' = Returned("delete_conversation", f.conversation_id,
                                   f.user_id, TRUE, "none", TRUE)
                /\ Resume(f, Done)
           ELSE /\ Resume(f, [f EXCEPT !.pc = "rollback",
                                       !.local = [kind |-> "raised",
                                                  exc |-> "OperationalError"]])
                /\ UNCHANGED <<conversations, svc>>
        /\ UNCHANGED <<analysisVars, evaluations, uploads, rows, http,
                       authVars, tokenVars>>

\* The except branch of delete_conversation, lines 252-255: `await
\* db.rollback()` and False; a rollback that raises leaves the call with its
\* exception.
SvcDeleteRollback ==
    \E f \in Suspended, db_ok \in BOOLEAN :
        /\ f.op = "delete_conversation"
        /\ f.pc = "rollback"
        /\ svc' = Returned("delete_conversation", f.conversation_id, f.user_id,
                           db_ok, IF db_ok THEN "none" ELSE "OperationalError", FALSE)
        /\ Resume(f, Done)
        /\ UNCHANGED <<analysisVars, dbVars, http, authVars, tokenVars>>

\* update_conversation_status(conversation_id, status, db) up to `await
\* db.commit()`, lines 206-219: the query (it has no user_id condition), the
\* status and, for "completed", completed_at = datetime.utcnow() assigned to
\* the loaded row.  False when no row is found; a query that raises leads to
\* the except branch.
SvcUpdateConversationStatus ==
    \E conversation_id \in ConversationIds, status \in {"processing", "completed"},
       db_ok \in BOOLEAN, now \in {clock, Min2(clock + 1, MaxClock)} :
        LET r == ScalarOneOrNone({c \in conversations : c.id = conversation_id})
        IN  IF ~db_ok \/ r.exc # "none"
            THEN /\ Suspend(Frame("update_conversation_status", "rollback", NoToken,
                                  conversation_id, "",
                                  [kind |-> "raised",
                                   exc |-> IF ~db_ok THEN "OperationalError"
                                           ELSE r.exc]))
                 /\ UNCHANGED <<analysisVars, dbVars, http, svc, authVars, tokenVars>>
            ELSE IF r.found = {}
            THEN /\ svc' = Returned("update_conversation_status", conversation_id,
                                    "", TRUE, "none", FALSE)
                 /\ Suspend(Done)
                 /\ UNCHANGED <<analysisVars, dbVars, http, authVars, tokenVars>>
            ELSE LET conversation == CHOOSE c \in r.found : TRUE
                 IN  /\ Suspend(Frame("update_conversation_status", "commit", NoToken,
                                      conversation_id, "",
                                      [kind |-> "status",
                                       loaded |-> conversation,
                                       status |-> status,
                                       completed_at |->
                                           IF status = "completed" THEN now
                                           ELSE conversation.completed_at]))
                     /\ clock' = IF status = "completed" THEN now ELSE clock
                     /\ UNCHANGED <<analysisVars, dbVars, http, svc, users, authres,
                                    tokenVars>>

\* `await db.commit()` of update_conversation_status and the return of True,
\* lines 219-220.  The UPDATE by primary key sets the attributes whose
\* assigned value differs from the loaded one, and none is emitted when no
\* value differs.  When the row is gone the UPDATE matches no row: the
\* session raises StaleDataError if the driver reports row counts, and True
\* is returned if it does not.  A commit that raises leads to the except
\* branch.
SvcUpdateCommit ==
    \E f \in Suspended, db_ok \in BOOLEAN, sane_rowcount \in BOOLEAN :
        LET row == {c \in conversations : c.id = f.conversation_id}
            sets_status == f.local.status # f.local.loaded.status
            sets_completed_at == f.local.completed_at # f.local.loaded.completed_at
            emitted == sets_status \/ sets_completed_at
            exc == IF ~db_ok THEN "OperationalError"
                   ELSE IF emitted /\ row = {} /\ sane_rowcount THEN "StaleDataError"
                   ELSE "none"
        IN  /\ f.op = "update_conversation_status"
            /\ f.pc = "commit"
            /\ IF exc # "none"
               THEN /\ Resume(f, [f EXCEPT !.pc = "rollback",
                                           !.local = [kind |-> "raised", exc |-> exc]])
                    /\ UNCHANGED <<conversations, svc>>
               ELSE /\ conversations' =
                           (conversations \ row) \cup
                           {[c EXCEPT !.status = IF sets_status THEN f.local.status
                                                 ELSE @,
                                      !.completed_at =
                                          IF sets_completed_at
                                          THEN f.local.completed_at ELSE @] :
                                c \in row}
                    /\ svc' = Returned("update_conversation_status",
                                       f.conversation_id, "", TRUE, "none", TRUE)
                    /\ Resume(f, Done)
            /\ UNCHANGED <<analysisVars, evaluations, uploads, rows, http,
                           authVars, tokenVars>>

\* The except branch of update_conversation_status, lines 222-225: `await
\* db.rollback()` and False; a rollback that raises leaves the call with its
\* exception.
SvcUpdateRollback ==
    \E f \in Suspended, db_ok \in BOOLEAN :
        /\ f.op = "update_conversation_status"
        /\ f.pc = "rollback"
        /\ svc' = Returned("update_conversation_status", f.conversation_id, "",
                           db_ok, IF db_ok THEN "none" ELSE "OperationalError", FALSE)
        /\ Resume(f, Done)
        /\ UNCHANGED <<analysisVars, dbVars, http, authVars, tokenVars>>

\* The next query of a suspended get_user_progress, lines 117-197, and after
\* the last one the return (for the endpoint, lines 372-375 of main.py).  A
\* query that raises ends the call with the default record.
GetUserProgressQuery ==
    \E f \in Suspended :
        /\ f.op = "get_user_progress"
        /\ \E db_ok \in (IF f.token = NoToken THEN BOOLEAN ELSE {TRUE}) :
             LET progress == IF db_ok THEN ProgressQuery(f.pc, f.user_id, f.local)
                             ELSE DefaultProgress
             IN  IF db_ok /\ NextQuery(f.pc) # "return"
                 THEN /\ Resume(f, [f EXCEPT !.pc = NextQuery(f.pc),
                                              !.local = progress])
                      /\ UNCHANGED <<http, svc>>
                 ELSE /\ Resume(f, Done)
                      /\ IF f.token = NoToken
                         THEN /\ svc' = Returned("get_user_progress", 0, f.user_id,
                                                 db_ok, "none", progress)
                              /\ UNCHANGED http
                         ELSE /\ http' = Ok("get_user_progress", f.token, 0, f.user_id,
                                            {"get_user_progress"},
                                            [kind |-> "progress",
                                             progress |-> progress])
                              /\ UNCHANGED svc
        /\ UNCHANGED <<analysisVars, dbVars, authVars, tokenVars>>

\* get_user_progress(user_id, db) up to its first query.
SvcCallGetUserProgress ==
    \E user_id \in UserIds, db_ok \in BOOLEAN :
        IF ~db_ok
        THEN /\ svc' = Returned("get_user_progress", 0, user_id, db_ok, "none",
                                DefaultProgress)
             /\ Suspend(Done)
        /\ UNCHANGED <<analysisVars, dbVars, http, authVars, tokenVars>>
        ELSE /\ Suspend(Frame("get_user_progress", "average", NoToken, 0, user_id,
                              ProgressQuery("count", user_id, DefaultProgress)))
             /\ UNCHANGED <<analysisVars, dbVars, http, svc, authVars, tokenVars>>

InitService ==
    /\ areq = [op |-> "none"]
    /\ ares = Pending
    /\ InitDb

NextService ==
    \/ SvcCreateConversation
    \/ CreateConversationRefresh
    \/ CreateConversationRollback
    \/ SvcCallGetConversation
    \/ SvcCallGetUserConversations
    \/ SvcDeleteConversation
    \/ SvcDbDelete
    \/ SvcDeleteCommit
    \/ SvcDeleteRollback
    \/ SvcUpdateConversationStatus
    \/ SvcUpdateCommit
    \/ SvcUpdateRollback

SpecService == InitService /\ [][NextService]_vars


\* The frames of which the step adds a copy, and those of which it takes one.
Started == {f \in BagToSet(pending') : CopiesIn(f, pending') > CopiesIn(f, pending)}

Ended == {f \in BagToSet(pending) : CopiesIn(f, pending) > CopiesIn(f, pending')}

\* A return of get_conversation: only the stored row whose id and user_id
\* both match, None for any other pair.
C7_GetStep ==
    (Responds /\ svc'.op = "get_conversation") =>
        /\ \A c \in svc'.value :
              /\ c \in conversations
              /\ c.id = svc'.conversation_id
              /\ c.user_id = svc'.user_id
        /\ (~\E c \in conversations :
               c.id = svc'.conversation_id /\ c.user_id = svc'.user_id)
           => svc'.value = {}
        /\ (svc'.db_ok /\ svc'.value = {}) =>
              ~\E c \in conversations :
                  c.id = svc'.conversation_id /\ c.user_id = svc'.user_id
        /\ conversations' = conversations

\* A return of get_user_conversations: the caller's rows, newest first.
C7_ListStep ==
    (Responds /\ svc'.op = "get_user_conversations") =>
        /\ \A i \in 1..Len(svc'.value) :
              /\ svc'.value[i] \in conversations
              /\ svc'.value[i].user_id = svc'.user_id
        /\ \A i, j \in 1..Len(svc'.value) :
              i < j => svc'.value[i].created_at >= svc'.value[j].created_at
        /\ svc'.db_ok =>
              \A c \in conversations :
                  c.user_id = svc'.user_id =>
                      \E i \in 1..Len(svc'.value) : svc'.value[i] = c
        /\ conversations' = conversations

\* A stored conversation has the id and the user_id the call f was made with.
C7_Matches(f) ==
    \E c \in conversations : c.id = f.conversation_id /\ c.user_id = f.user_id

\* delete_conversation goes on from its query to db.delete only for a stored
\* row whose id and user_id both match; only the commit of such a call
\* removes a row, and only that row; only such a call returns True; a call
\* that found no row returns False at once and changes nothing.
C7_DeleteScopedStep ==
    LET removed == {c \in conversations : ~\E d \in conversations' : d.id = c.id}
        started == {f \in Started : f.op = "delete_conversation"}
        finished == {f \in Ended : f.op = "delete_conversation"}
    IN  /\ \A f \in started : f.pc = "delete" => C7_Matches(f)
        /\ \A c \in removed :
              \E f \in finished : /\ f.pc = "commit"
                                  /\ f.conversation_id = c.id
                                  /\ f.user_id = c.user_id
        /\ \A f \in finished : f.pc # "commit" => conversations' = conversations
        /\ (Responds /\ svc'.op = "delete_conversation") =>
              /\ (svc'.exc = "none" /\ svc'.value) =>
                    \E f \in finished : f.pc = "commit"
              /\ finished = {} =>
                    /\ svc'.exc = "none"
                    /\ svc'.value = FALSE
                    /\ conversations' = conversations
                    /\ ~C7_Matches(svc')

\* The except branch of delete_conversation: the call whose query, delete
\* or commit raised returns False when its rollback returns, and leaves with
\* the exception of the rollback when that raises too; no row is touched.
C7_DeleteExceptStep ==
    \A f \in Ended :
        (f.op = "delete_conversation" /\ f.pc = "rollback") =>
            /\ Responds
            /\ svc'.op = "delete_conversation"
            /\ svc'.value = FALSE
            /\ svc'.exc = (IF svc'.db_ok THEN "none" ELSE "OperationalError")
            /\ conversations' = conversations

LlmEndpoint ==
    {LlmReply("raises", NoField, NoField, NoField, NoField, "absent", "absent"),
     LlmReply("json_object", JNum(21), JNum(10), JNum(10), JNum(10), "B2", "dict_full"),
     LlmReply("json_object", JNum(10), JNum(21), JNum(10), JNum(10), "B2", "dict_full")}

\* UploadFile.content_type: a str, or None when the part carries none.
NoContentType == <<"None">>
ContentTypes ==
    {<<"audio", "/", "mpeg">>, <<"image", "/", "png">>, <<"audio">>, NoContentType}

\* UploadFile.filename, as its segments between "/".
FileNames == {<<"a.mp3">>, <<"d", "a.mp3">>}

\* str.startswith answering True for every string.
StartsWithMutAlways(str, prefix) == TRUE

\* str.startswith
StartsWith(str, prefix) ==
    Len(str) >= Len(prefix) /\ SubSeq(str, 1, Len(prefix)) = prefix

\* f"uploads/{conversation_id}_{audio_file.filename}"
AudioPath(conversation_id, filename) == <<"uploads", "/", conversation_id, "_", filename>>

\* open(audio_path, "wb") raises FileNotFoundError when the path names a
\* directory below uploads/ (only makedirs("uploads") is called, and the
\* first segment of the filename is glued to the conversation id).
OpenRaises(audio_path) == Len(audio_path[5]) > 1

\* POST /api/conversations, up to `await db.commit()` of create_conversation;
\* a commit that raises leads to the except branch of create_conversation.
CreateConversation ==
    \E token \in EndpointTokens, db_ok \in BOOLEAN :
        LET auth == GetCurrentUser(token)
        IN  IF auth.exc # "none"
            THEN /\ http' = Rejected("create_conversation", token, auth)
                 /\ Suspend(Done)
                 /\ UNCHANGED <<analysisVars, dbVars, svc, authVars, tokenVars>>
            ELSE IF ~db_ok
            THEN /\ Suspend(Frame("create_conversation", "rollback", token, 0,
                                  auth.user.id,
                                  [kind |-> "raised", exc |-> "OperationalError"]))
                 /\ UNCHANGED <<analysisVars, dbVars, http, svc, authVars, tokenVars>>
            ELSE /\ rows < MaxRows
                 /\ conversations' = conversations \cup
                                         {NewConversation(rows + 1, auth.user.id, rows + 1)}
                 /\ rows' = rows + 1
                 /\ Suspend(Frame("create_conversation", "refresh", token,
                                  rows + 1, auth.user.id, [kind |-> "none"]))
                 /\ UNCHANGED <<analysisVars, evaluations, uploads, http, svc,
                                authVars, tokenVars>>

\* GET /api/conversations
GetUserConversations ==
    \E token \in EndpointTokens :
        LET auth == GetCurrentUser(token)
        IN  /\ http' = IF auth.exc # "none"
                       THEN Rejected("get_user_conversations", token, auth)
                       ELSE Ok("get_user_conversations", token, 0, "",
                               {"get_user_conversations"},
                               [kind |-> "conversations",
                                rows |-> SvcGetUserConversations(auth.user.id, TRUE)])
            /\ Suspend(Done)
            /\ UNCHANGED <<analysisVars, dbVars, svc, authVars, tokenVars>>

\* GET /api/conversations/{conversation_id}
GetConversation ==
    \E token \in EndpointTokens, conversation_id \in ConversationIds :
        LET auth == GetCurrentUser(token)
            conversation == SvcGetConversation(conversation_id, auth.user.id, TRUE)
        IN  /\ http' = IF auth.exc # "none"
                       THEN Rejected("get_conversation", token, auth)
                       ELSE IF conversation = {}
                       THEN Caught("get_conversation", token, 500, 404,
                                   conversation_id, "", {"get_conversation"})
                       ELSE Ok("get_conversation", token, conversation_id, "",
                               {"get_conversation"},
                               [kind |-> "conversation",
                                row |-> CHOOSE c \in conversation : TRUE])
            /\ Suspend(Done)
            /\ UNCHANGED <<analysisVars, dbVars, svc, authVars, tokenVars>>

NewEvaluation(id, conversation, evaluator_id, created_at, a) ==
    [id |-> id, conversation_id |-> conversation.id, evaluator_id |-> evaluator_id,
     created_at |-> created_at, overall_score |-> a.overall_score,
     grammar_score |-> a.grammar_score, vocabulary_score |-> a.vocabulary_score,
     fluency_score |-> a.fluency_score,
     pronunciation_score |-> a.pronunciation_score,
     comprehension_score |-> a.comprehension_score,
     proficiency_level |-> a.proficiency_level]

\* POST /api/conversations/{conversation_id}/analyze.  The handler awaits
\* the query of get_conversation and then runs to its answer.  Its three
\* db.commit() are called without await, so it stores nothing itself: the
\* transcript, the status and the evaluation stay in its session, which the
\* dependency get_db closes after the answer.  The 404 is raised before the
\* session holds anything; an exception of the analysis leaves the
\* transcript and the status "processing" in it, and an AnalysisResponse
\* that does not validate (lines 244-259) leaves all that the handler did.
AnalyzeConversation ==
    \E token \in EndpointTokens, conversation_id \in ConversationIds :
        LET auth == GetCurrentUser(token)
            found == SvcGetConversation(conversation_id, auth.user.id, TRUE)
        IN  IF auth.exc # "none"
            THEN /\ http' = Rejected("analyze_conversation", token, auth)
                 /\ Suspend(Done)
                 /\ UNCHANGED <<analysisVars, dbVars, svc, authVars, tokenVars>>
            ELSE IF found = {}
            THEN /\ http' = Caught("analyze_conversation", token, 500, 404,
                                   conversation_id, "", {"get_conversation"})
                 /\ Suspend(Done)
                 /\ UNCHANGED <<analysisVars, dbVars, svc, authVars, tokenVars>>
            ELSE
            \E transcript \in {ShortTranscript}, llm \in LlmEndpoint :
              LET analysis_result == LlamaAnalyze(transcript, llm)
                  called == {"get_conversation", "analyze_conversation"}
                  analysed == analysis_result.exc = "none"
                  session == [kind |-> "session", transcript |-> transcript,
                              status |-> IF analysed THEN "completed"
                                         ELSE "processing",
                              added |-> analysed, analysis |-> analysis_result]
              IN  /\ http' = IF analysed /\ ValidAnalysisResponse(analysis_result)
                             THEN Ok("analyze_conversation", token, conversation_id,
                                     "", called,
                                     [kind |-> "analysis", analysis |-> analysis_result])
                             ELSE Caught("analyze_conversation", token, 500, 0,
                                         conversation_id, "", called)
                  /\ Suspend(Frame("analyze_conversation", "close", token,
                                   conversation_id, auth.user.id, session))
                  /\ UNCHANGED <<analysisVars, dbVars, svc, authVars, tokenVars>>

\* GET /api/conversations/{conversation_id}/analysis
GetConversationAnalysis ==
    \E token \in EndpointTokens, conversation_id \in ConversationIds :
        LET auth == GetCurrentUser(token)
            evaluation == SvcGetConversationEvaluation(conversation_id, TRUE)
            called == {"get_conversation_evaluation"}
        IN  /\ http' = IF auth.exc # "none"
                       THEN Rejected("get_conversation_analysis", token, auth)
                       ELSE IF evaluation = {}
                       THEN Caught("get_conversation_analysis", token, 500, 404,
                                   conversation_id, "", called)
                       ELSE LET e == CHOOSE x \in evaluation : TRUE
                            IN  IF ValidAnalysisResponse(e)
                                THEN Ok("get_conversation_analysis", token,
                                        conversation_id, "", called,
                                        [kind |-> "analysis", analysis |-> e])
                                ELSE Caught("get_conversation_analysis", token, 500, 0,
                                            conversation_id, "", called)
            /\ Suspend(Done)
            /\ UNCHANGED <<analysisVars, dbVars, svc, authVars, tokenVars>>

\* POST /api/conversations/{conversation_id}/audio, up to the query of
\* get_conversation, lines 332-340.
UploadAudio ==
    \E token \in EndpointTokens, conversation_id \in ConversationIds :
      LET auth == GetCurrentUser(token)
          found == SvcGetConversation(conversation_id, auth.user.id, TRUE)
      IN
      IF auth.exc # "none"
      THEN /\ http' = Rejected("upload_audio", token, auth)
           /\ Suspend(Done)
           /\ UNCHANGED <<analysisVars, dbVars, svc, authVars, tokenVars>>
      ELSE
      \E content_type \in ContentTypes :
        IF content_type = NoContentType
        THEN /\ http' = Caught("upload_audio", token, 500, 0, conversation_id, "", {})
             /\ Suspend(Done)
             /\ UNCHANGED <<analysisVars, dbVars, svc, authVars, tokenVars>>
        ELSE IF ~StartsWith(content_type, <<"audio", "/">>)
        THEN /\ http' = Caught("upload_audio", token, 500, 400, conversation_id, "", {})
             /\ Suspend(Done)
             /\ UNCHANGED <<analysisVars, dbVars, svc, authVars, tokenVars>>
        ELSE IF found = {}
        THEN /\ http' = Caught("upload_audio", token, 500, 404, conversation_id, "",
                               {"get_conversation"})
             /\ Suspend(Done)
             /\ UNCHANGED <<analysisVars, dbVars, svc, authVars, tokenVars>>
        ELSE
        \E filename \in FileNames :
          /\ Suspend(Frame("upload_audio", "open", token, conversation_id,
                           auth.user.id,
                           [kind |-> "upload", content_type |-> content_type,
                            filename |-> filename]))
          /\ UNCHANGED <<analysisVars, dbVars, http, svc, authVars, tokenVars>>

\* upload_audio from the return of get_conversation to `await
\* audio_file.read()`, lines 343-347: open(audio_path, "wb") creates the file
\* empty, or raises.
UploadAudioOpen ==
    \E f \in Suspended :
        LET audio_path == AudioPath(f.conversation_id, f.local.filename)
        IN  /\ f.op = "upload_audio"
            /\ f.pc = "open"
            /\ IF OpenRaises(audio_path)
               THEN /\ http' = Caught("upload_audio", f.token, 500, 0,
                                      f.conversation_id, "", {"get_conversation"})
                    /\ Resume(f, Done)
                    /\ UNCHANGED uploads
               ELSE /\ uploads' = {u \in uploads : u.path # audio_path} \cup
                                      {[path |-> audio_path, written |-> FALSE]}
                    /\ Resume(f, [f EXCEPT !.pc = "write"])
                    /\ UNCHANGED http
            /\ UNCHANGED <<analysisVars, conversations, evaluations, rows, svc,
                           authVars, tokenVars>>

\* upload_audio from the return of audio_file.read() to its answer, lines
\* 348-354: the content is written, conversation.audio_file_url is assigned
\* in the session, and db.commit() is called without await.
UploadAudioWrite ==
    \E f \in Suspended :
        LET audio_path == AudioPath(f.conversation_id, f.local.filename)
        IN  /\ f.op = "upload_audio"
            /\ f.pc = "write"
            /\ uploads' = {u \in uploads : u.path # audio_path} \cup
                              {[path |-> audio_path, written |-> TRUE]}
            /\ http' = Ok("upload_audio", f.token, f.conversation_id, "",
                          {"get_conversation"},
                          [kind |-> "upload", file_path |-> audio_path,
                           content_type |-> f.local.content_type])
            /\ Resume(f, [f EXCEPT !.pc = "close"])
            /\ UNCHANGED <<analysisVars, conversations, evaluations, rows, svc,
                           authVars, tokenVars>>

\* The dependency get_db ends after the answer of analyze_conversation or
\* upload_audio and closes the session that holds their changes.  Whether it
\* commits them (app/core/database is not among the sources) is open: both
\* outcomes are taken.
GetDbClose ==
    \E f \in Suspended, commits \in BOOLEAN :
        LET row == {c \in conversations : c.id = f.conversation_id}
        IN  /\ f.pc = "close"
            /\ IF ~commits
               THEN UNCHANGED dbVars
               ELSE IF f.op = "upload_audio"
               THEN /\ conversations' = (conversations \ row) \cup
                           {[c EXCEPT !.audio_file_url =
                                 AudioPath(f.conversation_id, f.local.filename)] :
                                c \in row}
                    /\ UNCHANGED <<evaluations, uploads, rows>>
               ELSE /\ conversations' = (conversations \ row) \cup
                           {[c EXCEPT !.transcript = f.local.transcript,
                                      !.status = f.local.status] : c \in row}
                    /\ IF f.local.added
                       THEN /\ rows < MaxRows
                            /\ evaluations' = evaluations \cup
                                   {NewEvaluation(rows + 1, [id |-> f.conversation_id],
                                                  f.user_id, rows + 1,
                                                  f.local.analysis)}
                            /\ rows' = rows + 1
                       ELSE UNCHANGED <<evaluations, rows>>
                    /\ UNCHANGED uploads
            /\ Resume(f, Done)
            /\ UNCHANGED <<analysisVars, http, svc, authVars, tokenVars>>

\* The test of get_user_progress with the role test inverted.
NotAuthorizedMutTeacherOnly(current_user, user_id) ==
    current_user.id # user_id /\ current_user.role = "teacher"

\* `current_user.id != user_id and current_user.role != "teacher"`
NotAuthorized(current_user, user_id) ==
    current_user.id # user_id /\ current_user.role # "teacher"

\* GET /api/users/{user_id}/progress, up to the first query of
\* get_user_progress.
GetUserProgress ==
    \E token \in EndpointTokens, user_id \in UserIds :
        LET auth == GetCurrentUser(token)
        IN  IF auth.exc # "none"
            THEN /\ http' = Rejected("get_user_progress", token, auth)
                 /\ Suspend(Done)
                 /\ UNCHANGED <<analysisVars, dbVars, svc, authVars, tokenVars>>
            ELSE IF NotAuthorized(auth.user, user_id)
            THEN /\ http' = Caught("get_user_progress", token, 500, 403, 0, user_id, {})
                 /\ Suspend(Done)
                 /\ UNCHANGED <<analysisVars, dbVars, svc, authVars, tokenVars>>
            ELSE /\ Suspend(Frame("get_user_progress", "average", token, 0, user_id,
                                  ProgressQuery("count", user_id, DefaultProgress)))
                 /\ UNCHANGED <<analysisVars, dbVars, http, svc, authVars, tokenVars>>

NextHttp ==
    \/ CreateConversation
    \/ CreateConversationRefresh
    \/ CreateConversationRollback
    \/ GetUserConversations
    \/ GetConversation
    \/ AnalyzeConversation
    \/ GetConversationAnalysis
    \/ UploadAudio
    \/ UploadAudioOpen
    \/ UploadAudioWrite
    \/ GetDbClose
    \/ GetUserProgress
    \/ GetUserProgressQuery

SpecHttp == InitService /\ [][NextHttp]_vars


(***************************************************************************)
(* Claims about the protected endpoints (checked under SpecHttp).          *)
(***************************************************************************)

\* The conversation the path names exists and belongs to the caller.
OwnedConversationExists(conversation_id, caller_id) ==
    \E c \in conversations : c.id = conversation_id /\ c.user_id = caller_id

\* C4: an HTTPException raised inside an endpoint handler reaches the client
\* with its declared status code (404 for a conversation that does not exist
\* or is not the caller's, 404 for a missing analysis, 400 for a non-audio
\* upload, 403 for a progress request of a non-owner non-teacher).
C4_DeclaredStatusReachesClient ==
    /\ (http.op # "none" /\ http.raised # 0) => http.status = http.raised
    /\ (/\ http.op = "get_conversation"
        /\ http.ran
        /\ ~OwnedConversationExists(http.conversation_id, http.token.sub))
       => http.status = 404

\* The bearer token decodes with the configured secret and algorithm, has
\* type 'access' and a non-empty 'sub'.
Admissible(token) ==
    /\ token.key = SecretKey
    /\ token.alg = Algorithm
    /\ ~token.expired
    /\ token.type = "access"
    /\ token.sub # "absent"
    /\ token.sub # ""

C5_AdmittedOrRejected ==
    http.op # "none" =>
        IF Admissible(http.token)
        THEN http.ran /\ http.status # 401
        ELSE /\ http.status = 401
             /\ ~http.ran
             /\ http.called = {}
             /\ http.body = NoBody

\* No handler is running, suspended at an await, for a token that is not
\* admissible.
C5_NoHandlerWithoutAdmission ==
    \A f \in Suspended : Admissible(f.token)

\* The answer to a token that is not admissible comes from the dependency
\* alone: no table or file changes and no handler starts or goes on.
C5_RejectedStep ==
    (Responds /\ ~Admissible(http'.token)) =>
        /\ UNCHANGED dbVars
        /\ Started \subseteq {Done}
        /\ Ended = {}

\* C5: get_current_user admits a request only when the bearer token decodes
\* with the configured secret and algorithm, has type 'access' and a
\* non-empty 'sub'; otherwise the answer is 401, the handler body does not
\* run and the tables and files stay as they were.
C5_OnlyValidAccessTokensAdmitted ==
    /\ [](C5_AdmittedOrRejected /\ C5_NoHandlerWithoutAdmission)
    /\ [][C5_RejectedStep]_vars

\* A correctly signed, unexpired refresh token was presented to the analyze
\* endpoint of a stored conversation of its subject, and answered with 401,
\* while another request was suspended.
C5_Witness ==
    /\ http.op = "analyze_conversation"
    /\ http.token = [BaseToken EXCEPT !.type = "refresh"]
    /\ http.status = 401
    /\ \E c \in conversations : c.user_id = http.token.sub
    /\ Suspended # {}

\* The caller may read the progress of user_id.
C6_Authorized(token, user_id) ==
    /\ Admissible(token)
    /\ (token.sub = user_id \/ token.role = "teacher")

\* The progress record holds data of user_id: no more conversations than
\* user_id has, the creation date of one of them, and no more scores than
\* user_id has evaluations (the endpoints remove no row).
C6_DataOf(progress, user_id) ==
    LET mine == {c \in conversations : c.user_id = user_id}
        joined == {e \in evaluations : \E c \in mine : c.id = e.conversation_id}
    IN  /\ progress.total_conversations <= Cardinality(mine)
        /\ progress.last_conversation_date \in {0} \cup {c.created_at : c \in mine}
        /\ Len(progress.grammar_trend) <= Cardinality(joined)
        /\ \A i \in 1..Len(progress.grammar_trend) :
               \E e \in joined : e.grammar_score = progress.grammar_trend[i]

\* C6: GET /api/users/{user_id}/progress invokes get_user_progress and
\* returns progress data (that of user_id) only when the caller's id equals
\* user_id or the caller's role is 'teacher'.
C6_ProgressOnlyForOwnerOrTeacher ==
    /\ http.op = "get_user_progress" =>
        /\ ("get_user_progress" \in http.called \/ http.body.kind = "progress")
           => /\ C6_Authorized(http.token, http.user_id)
              /\ http.body.kind = "progress"
              /\ C6_DataOf(http.body.progress, http.user_id)
        /\ (http.ran /\ http.token.sub # http.user_id /\ http.token.role # "teacher")
           => (http.called = {} /\ http.body = NoBody /\ http.status # 200)
    /\ \A f \in Suspended :
           f.op = "get_user_progress"
           => /\ C6_Authorized(f.token, f.user_id)
              /\ C6_DataOf(f.local, f.user_id)

\* A student asked for the progress of another user who has a conversation,
\* and got no progress data, while a teacher's request for it is suspended
\* between two of its queries.
C6_Witness ==
    /\ http.op = "get_user_progress"
    /\ http.ran
    /\ http.token.role = "student"
    /\ http.token.sub # http.user_id
    /\ http.body = NoBody
    /\ \E c \in conversations : c.user_id = http.user_id
    /\ \E f \in Suspended :
           /\ f.op = "get_user_progress"
           /\ f.user_id = http.user_id
           /\ f.token.role = "teacher"
           /\ f.token.sub # http.user_id


\* A file under uploads is created or written, or some audio_file_url
\* differs.
C12_Effect ==
    \/ uploads' # uploads
    \/ \E c \in conversations, d \in conversations' :
           c.id = d.id /\ c.audio_file_url # d.audio_file_url

\* The frame is of an upload of an admitted caller whose content type starts
\* with "audio/", for a stored conversation of the caller.
C12_OwnedAudio(f) ==
    /\ f.op = "upload_audio"
    /\ Admissible(f.token)
    /\ Len(f.local.content_type) >= 2
    /\ f.local.content_type[1] = "audio"
    /\ f.local.content_type[2] = "/"
    /\ \E c \in conversations :
           /\ c.id = f.conversation_id
           /\ c.user_id = f.token.sub

C12_UploadStep ==
    /\ \A f \in Started : f.op = "upload_audio" => C12_OwnedAudio(f)
    /\ C12_Effect =>
           \E f \in Ended :
               LET path == AudioPath(f.conversation_id, f.local.filename)
               IN  /\ C12_OwnedAudio(f)
                   /\ path[1] = "uploads"
                   /\ path[2] = "/"
                   /\ Len(path[5]) = 1
                   /\ \A u \in (uploads' \ uploads) \cup (uploads \ uploads') :
                          u.path = path
                   /\ \A c \in conversations, d \in conversations' :
                          (c.id = d.id /\ c.audio_file_url # d.audio_file_url) =>
                              /\ c.id = f.conversation_id
                              /\ d.audio_file_url = path
    /\ (Responds /\ http'.op = "upload_audio" /\ http'.status # 200)
       => ~C12_Effect

\* C12: a file is written under uploads/ and an audio_file_url is set only
\* by an upload whose content type starts with "audio/" on a conversation
\* that exists and is owned by the caller; every other step writes no file
\* and leaves every audio_file_url as it was.
C12_UploadOnlyForOwnedAudio == [][C12_UploadStep]_vars

\* An upload was answered with 200, its file is written and the url of its
\* conversation is stored, and another user has a conversation too.
C12_Witness ==
    /\ http.op = "upload_audio"
    /\ http.status = 200
    /\ [path |-> http.body.file_path, written |-> TRUE] \in uploads
    /\ \E c \in conversations :
           /\ c.id = http.conversation_id
           /\ c.audio_file_url = http.body.file_path
    /\ \E c \in conversations : c.user_id # http.token.sub

(***************************************************************************)
(* AuthService: users, passwords, login (SpecAuth).                        *)
(***************************************************************************)
Emails == {"e1", "e2"}

\* The column defaults of User (app/models, not in src/).
DefaultRole == "student"
DefaultIsActive == TRUE

\* str(user.id)
IdStr(n) ==
    CASE n = 1 -> "u1" [] n = 2 -> "u2" [] n = 3 -> "u3" [] n = 4 -> "u4"
      [] OTHER -> "u5"

\* pwd_context.hash / pwd_context.verify (the salt is left out: it does not
\* change what verify answers)
GetPasswordHash(password) == [scheme |-> "bcrypt", password |-> password]
VerifyPassword(plain_password, hashed_password) ==
    hashed_password = GetPasswordHash(plain_password)

\* to_encode.update({"exp": expire, "type": ...}) keeping a type of the data
CreateRefreshTokenMutKeepType(data) ==
    Token(SecretKey, Algorithm, FALSE,
          IF data.type = "absent" THEN "refresh" ELSE data.type,
          data.sub, data.email, data.role)

\* AuthService.create_access_token
CreateAccessToken(data) ==
    LET to_encode == [data EXCEPT !.type = "access"]
    IN  Token(SecretKey, Algorithm, FALSE, to_encode.type, to_encode.sub,
              to_encode.email, to_encode.role)

\* AuthService.create_refresh_token
CreateRefreshToken(data) ==
    LET to_encode == [data EXCEPT !.type = "refresh"]
    IN  Token(SecretKey, Algorithm, FALSE, to_encode.type, to_encode.sub,
              to_encode.email, to_encode.role)

\* AuthService.refresh_access_token
RefreshAccessToken(refresh_token) ==
    LET payload == VerifyToken(refresh_token)
    IN  IF ~payload.ok \/ payload.type # "refresh" THEN NoToken
        ELSE IF payload.sub \in {"absent", ""} THEN NoToken
        ELSE CreateAccessToken([sub |-> payload.sub, email |-> payload.email,
                                role |-> payload.role, type |-> "absent"])

NewUser(id, user_data) ==
    [id |-> id, email |-> user_data.email, username |-> user_data.username,
     password_hash |-> GetPasswordHash(user_data.password),
     role |-> DefaultRole, is_active |-> DefaultIsActive, last_login |-> 0]

\* The bodies of the register requests; a login tries both passwords.
UserCreates == [email : Emails, username : {"n1", "n2"}, password : {"p1"}]

\* The username query of create_user answering with no row.
UsersByUsernameMutNone(username) == {}

\* select(User).where(User.email == email)
UsersByEmail(email) == {u \in users : u.email = email}

\* select(User).where(User.username == username)
UsersByUsername(username) == {u \in users : u.username = username}

Raised(exc, detail) == [exc |-> exc, detail |-> detail]

AuthResponse(op, status, exc, detail, user_data, token, user_id) ==
    [op |-> op, status |-> status, exc |-> exc, detail |-> detail,
     email |-> user_data.email,
     username |-> user_data.username, password |-> user_data.password,
     token |-> token, user_id |-> user_id]

\* Whether the users table refuses a second row with the same email or
\* username (a unique index would be declared in app/models/user.py, which
\* this source tree does not hold): both answers are taken.
UniqueEnforced == BOOLEAN

\* The frame of a create_user call: at pc when nothing was raised, in the
\* except branch (before its `await db.rollback()`) with what was raised.
CreateUserFrame(pc, user_id, user_data, raised) ==
    Frame("register", IF raised.exc = "none" THEN pc ELSE "rollback", NoToken, 0,
          user_id,
          [email |-> user_data.email, username |-> user_data.username,
           password |-> user_data.password,
           exc |-> raised.exc, detail |-> raised.detail])

\* POST /api/auth/register: create_user up to its first query, `await
\* db.execute(select(User).where(User.email == ...))`, and the test of its
\* result, lines 72-78.
RegisterUser ==
    \E user_data \in UserCreates, db_ok \in BOOLEAN :
        LET existing_user == ScalarOneOrNone(UsersByEmail(user_data.email))
            raised == IF ~db_ok THEN Raised("OperationalError", "execute")
                      ELSE IF existing_user.exc # "none"
                      THEN Raised(existing_user.exc, "Multiple rows")
                      ELSE IF existing_user.found # {}
                      THEN Raised("ValueError", "User with this email already exists")
                      ELSE Raised("none", "")
        IN  /\ Suspend(CreateUserFrame("username_query", "", user_data, raised))
            /\ UNCHANGED <<analysisVars, dbVars, http, svc, authVars, tokenVars>>

\* `await db.execute(select(User).where(User.username == ...))` and the test
\* of its result, lines 80-84
CreateUserCheckUsername ==
    \E f \in Suspended, db_ok \in BOOLEAN :
        LET existing_username == ScalarOneOrNone(UsersByUsername(f.local.username))
            raised == IF ~db_ok THEN Raised("OperationalError", "execute")
                      ELSE IF existing_username.exc # "none"
                      THEN Raised(existing_username.exc, "Multiple rows")
                      ELSE IF existing_username.found # {}
                      THEN Raised("ValueError", "Username already taken")
                      ELSE Raised("none", "")
        IN  /\ f.op = "register"
            /\ f.pc = "username_query"
            /\ Resume(f, CreateUserFrame("commit", "", f.local, raised))
            /\ UNCHANGED <<analysisVars, dbVars, http, svc, authVars, tokenVars>>

\* db.add(user); await db.commit(), lines 87-98; a commit the table refuses
\* raises IntegrityError, and a commit that raises stores nothing.
CreateUserCommit ==
    \E f \in Suspended, enforced \in UniqueEnforced, db_ok \in BOOLEAN :
        LET user == NewUser(Cardinality(users) + 1, f.local)
            clash == UsersByEmail(f.local.email) \cup UsersByUsername(f.local.username)
            raised == IF ~db_ok THEN Raised("OperationalError", "commit")
                      ELSE IF enforced /\ clash # {}
                      THEN Raised("IntegrityError", "duplicate key")
                      ELSE Raised("none", "")
        IN  /\ f.op = "register"
            /\ f.pc = "commit"
            /\ users' = IF raised.exc = "none" THEN users \cup {user} ELSE users
            /\ Resume(f, CreateUserFrame("refresh", IdStr(user.id), f.local, raised))
            /\ UNCHANGED <<analysisVars, dbVars, http, svc, clock, authres, tokenVars>>

\* `await db.refresh(user)` and the return, lines 99-102; register_user
\* answers with the user, main.py line 159.  A refresh that raises leaves
\* the committed user stored.
CreateUserRefresh ==
    \E f \in Suspended, db_ok \in BOOLEAN :
        /\ f.op = "register"
        /\ f.pc = "refresh"
        /\ IF db_ok
           THEN /\ \E user \in users :
                       /\ IdStr(user.id) = f.user_id
                       /\ authres' = AuthResponse("register", 200, "none", "",
                                                  f.local, NoToken, user.id)
                /\ Resume(f, Done)
           ELSE /\ Resume(f, CreateUserFrame("refresh", f.user_id, f.local,
                                             Raised("OperationalError", "refresh")))
                /\ UNCHANGED authres
        /\ UNCHANGED <<analysisVars, dbVars, http, svc, users, clock, tokenVars>>

\* The except branch of create_user, lines 104-107: `await db.rollback()`,
\* then the exception is raised again; a rollback that raises leaves with its
\* own exception.  register_user answers 400 with str(e), main.py lines
\* 160-161.  Nothing that is stored is undone.
CreateUserRollback ==
    \E f \in Suspended, db_ok \in BOOLEAN :
        LET raised == IF db_ok THEN Raised(f.local.exc, f.local.detail)
                      ELSE Raised("OperationalError", "rollback")
        IN  /\ f.op = "register"
            /\ f.pc = "rollback"
            /\ authres' = AuthResponse("register", 400, raised.exc, raised.detail,
                                       f.local, NoToken, 0)
            /\ Resume(f, Done)
            /\ UNCHANGED <<analysisVars, dbVars, http, svc, users, clock, tokenVars>>

\* The tests of authenticate_user, lines 113-124.
AuthenticateChecks(email, password) ==
    LET result == ScalarOneOrNone(UsersByEmail(email))
    IN  IF result.exc # "none" THEN Raised(result.exc, "Multiple rows")
        ELSE IF result.found = {}
        THEN Raised("ValueError", "Invalid email or password")
        ELSE LET user == CHOOSE u \in result.found : TRUE
             IN  IF ~user.is_active
                 THEN Raised("ValueError", "User account is disabled")
                 ELSE IF ~VerifyPassword(password, user.password_hash)
                 THEN Raised("ValueError", "Invalid email or password")
                 ELSE Raised("none", "")

\* POST /api/auth/login: authenticate_user up to `await db.commit()`, lines
\* 113-128: the query, the tests, and last_login = datetime.utcnow() set on
\* the loaded user.  Whatever is raised is answered with 401 and str(e).
LoginUser ==
    \E email \in Emails, password \in {"p1", "p2"},
       now \in {clock, Min2(clock + 1, MaxClock)} :
        LET checks == AuthenticateChecks(email, password)
            user_data == [email |-> email, username |-> "", password |-> password]
        IN  /\ clock' = now
            /\ IF checks.exc # "none"
               THEN /\ authres' = AuthResponse("login", 401, checks.exc,
                                               checks.detail, user_data, NoToken, 0)
                    /\ Suspend(Done)
               ELSE LET user == CHOOSE u \in UsersByEmail(email) : TRUE
                    IN  /\ Suspend(Frame("login", "commit", NoToken, 0,
                                         IdStr(user.id),
                                         [user_data |-> user_data,
                                          user |-> [user EXCEPT !.last_login = now]]))
                        /\ UNCHANGED authres
            /\ UNCHANGED <<analysisVars, dbVars, http, svc, users, tokenVars>>

\* `await db.commit()` of authenticate_user, the token and the answer, lines
\* 128-139 and main.py line 168: the UPDATE writes last_login alone; the
\* token is made of the user as loaded by the query.
LoginCommit ==
    \E f \in Suspended :
        LET token_data == [sub |-> IdStr(f.local.user.id),
                           email |-> f.local.user.email,
                           role |-> f.local.user.role, type |-> "absent"]
        IN  /\ f.op = "login"
            /\ f.pc = "commit"
            /\ users' = {IF u.id = f.local.user.id
                         THEN [u EXCEPT !.last_login = f.local.user.last_login]
                         ELSE u : u \in users}
            /\ authres' = AuthResponse("login", 200, "none", "", f.local.user_data,
                                       CreateAccessToken(token_data),
                                       f.local.user.id)
            /\ Resume(f, Done)
            /\ UNCHANGED <<analysisVars, dbVars, http, svc, clock, tokenVars>>

\* An account is disabled or enabled (users.is_active is written outside the
\* code under src/).
SetUserActive ==
    /\ \E user \in users, active \in BOOLEAN :
           /\ user.is_active # active
           /\ users' = (users \ {user}) \cup {[user EXCEPT !.is_active = active]}
    /\ UNCHANGED <<analysisVars, dbVars, http, svc, pending, clock, authres, tokenVars>>

NextAuth ==
    \/ RegisterUser
    \/ CreateUserCheckUsername
    \/ CreateUserCommit
    \/ CreateUserRefresh
    \/ CreateUserRollback
    \/ LoginUser
    \/ LoginCommit
    \/ SetUserActive

SpecAuth == InitService /\ [][NextAuth]_vars

\* create_user called sequentially: a call is made when the one before has
\* returned.
NextSequential ==
    \/ (Suspended = {} /\ RegisterUser)
    \/ CreateUserCheckUsername
    \/ CreateUserCommit
    \/ CreateUserRefresh
    \/ CreateUserRollback

SpecSequential == InitService /\ [][NextSequential]_vars

(***************************************************************************)
(* Claims about AuthService.create_user and authenticate_user.             *)
(***************************************************************************)
C8_NoSharedEmailOrUsername ==
    \A u, v \in users :
        (u.email = v.email \/ u.username = v.username) => u = v

C8_EmailTaken(user_data) == \E u \in users : u.email = user_data.email

C8_UsernameTaken(user_data) == \E u \in users : u.username = user_data.username

\* What a duplicate test raises: the ValueError with the message of the
\* test, or the exception of the query when the query itself raised.
C8_RaisedBy(local, message) ==
    \/ local.exc = "ValueError" /\ local.detail = message
    \/ local.exc = "OperationalError" /\ local.detail = "execute"

\* The call of a step goes on in its except branch.
C8_Rejects(f) ==
    \E g \in Started :
        /\ g.op = "register"
        /\ g.pc = "rollback"
        /\ g.local.email = f.local.email
        /\ g.local.username = f.local.username

\* The steps of create_user.  A call whose email is stored goes from its
\* email query to the except branch with the ValueError of the email test,
\* and a call whose username is stored goes there from its username query
\* with the ValueError of the username test; the except branch rolls back
\* and the call raises (what was raised, or the exception of a rollback that
\* raised), storing nothing.  A user is stored by the commit of a call that
\* passed both tests, and by no other step.
C8_DuplicateStep ==
    /\ \A f \in Started :
           (f.op = "register" /\ Ended = {}) =>
               /\ ~Responds
               /\ users' = users
               /\ C8_EmailTaken(f.local) =>
                      /\ f.pc = "rollback"
                      /\ C8_RaisedBy(f.local, "User with this email already exists")
    /\ \A f \in Ended :
           /\ (f.pc = "username_query" /\ C8_UsernameTaken(f.local)) =>
                  /\ ~Responds
                  /\ users' = users
                  /\ \E g \in Started :
                         /\ g.pc = "rollback"
                         /\ g.local.email = f.local.email
                         /\ C8_RaisedBy(g.local, "Username already taken")
           /\ (f.pc = "username_query" /\ ~C8_UsernameTaken(f.local)) =>
                  /\ ~Responds
                  /\ users' = users
           /\ (f.op = "register" /\ f.pc = "rollback") =>
                  /\ Responds
                  /\ authres'.op = "register"
                  /\ authres'.status = 400
                  /\ authres'.email = f.local.email
                  /\ authres'.username = f.local.username
                  /\ \/ /\ authres'.exc = f.local.exc
                        /\ authres'.detail = f.local.detail
                     \/ /\ authres'.exc = "OperationalError"
                        /\ authres'.detail = "rollback"
                  /\ users' = users
           /\ f.pc = "commit" =>
                  /\ ~Responds
                  /\ \/ \E u \in users' \ users :
                            /\ u.email = f.local.email
                            /\ u.username = f.local.username
                            /\ users' = users \cup {u}
                     \/ users' = users /\ C8_Rejects(f)
           /\ f.pc = "refresh" =>
                  /\ users' = users
                  /\ \/ Responds /\ authres'.status = 200
                     \/ ~Responds /\ C8_Rejects(f)

C9_Admitted(email, password) ==
    {u \in users : /\ u.email = email
                   /\ u.is_active
                   /\ u.password_hash.password = password}

\* The query of authenticate_user: the call goes on to its commit only for a
\* stored, active user whose password verifies; in every other case it
\* raises, issues no token and writes nothing.
C9_QueryStep ==
    /\ \A f \in Started :
           f.op = "login" =>
               f.local.user.id \in
                   {u.id : u \in C9_Admitted(f.local.user_data.email,
                                             f.local.user_data.password)}
    /\ (Responds /\ Ended = {} /\ authres'.op = "login") =>
           /\ authres'.token = NoToken
           /\ authres'.status = 401
           /\ users' = users

\* What a call that fails its tests raises is a ValueError.
C9_RaisesValueError ==
    (Responds /\ Ended = {} /\ authres'.op = "login") =>
        authres'.exc = "ValueError"

\* A token is issued, and last_login written, by the commit of a call that
\* passed the tests and by no other step.
C9_CommitStep ==
    /\ \A f \in Ended :
           f.op = "login" =>
               /\ Responds
               /\ authres'.status = 200
               /\ authres'.token.type = "access"
               /\ authres'.token.sub = f.user_id
               /\ \A u \in users, v \in users' :
                      u.id = v.id => v = [u EXCEPT !.last_login =
                                             IF u.id = f.local.user.id
                                             THEN f.local.user.last_login ELSE @]
    /\ (\E u \in users, v \in users' : u.id = v.id /\ u.last_login # v.last_login)
       => \E f \in Ended : f.op = "login"
    /\ (Responds /\ authres'.op = "login" /\ authres'.token # NoToken)
       => \E f \in Ended : f.op = "login"

\* C9: authenticate_user returns an access token only if a user with the
\* email exists, is active and the password verifies; in every other case it
\* raises ValueError, issues no token and leaves last_login unchanged;
\* last_login is written exactly on a successful authentication.
C9_TokenOnlyForActiveUserWithPassword ==
    [][C9_QueryStep /\ C9_RaisesValueError /\ C9_CommitStep]_vars

\* The same, with the exception left open where two stored users share the
\* email of the call (the query then raises MultipleResultsFound).
C9_ButForSharedEmail ==
    [][/\ C9_QueryStep
       /\ C9_CommitStep
       /\ (/\ Responds /\ Ended = {} /\ authres'.op = "login"
           /\ Cardinality(UsersByEmail(authres'.email)) < 2) =>
              authres'.exc = "ValueError"]_vars

\* C16: under any interleaving of concurrent create_user requests, suspended
\* at their awaits between the existence queries and the commit, no two
\* stored users share an email or a username.
C16_NoSharedUnderInterleaving ==
    \A u \in users, v \in users :
        u.id # v.id => (u.email # v.email /\ u.username # v.username)

(***************************************************************************)
(* The token functions of AuthService on the token a client holds          *)
(* (SpecToken).                                                            *)
(***************************************************************************)
TokenData ==
    [sub : {"absent", "", "u1", "u2"}, email : Emails, role : Roles,
     type : {"absent", "access", "refresh"}]

TokenReturn(op, token, value) ==
    [op |-> op, status |-> 0, token |-> token, value |-> value]

\* create_access_token(data)
CallCreateAccessToken ==
    \E data \in TokenData :
        /\ tok' = CreateAccessToken(data)
        /\ tokres' = TokenReturn("create_access_token", NoToken, tok')
        /\ UNCHANGED <<analysisVars, dbVars, http, svc, pending, authVars>>

\* create_refresh_token(data)
CallCreateRefreshToken ==
    \E data \in TokenData :
        /\ tok' = CreateRefreshToken(data)
        /\ tokres' = TokenReturn("create_refresh_token", NoToken, tok')
        /\ UNCHANGED <<analysisVars, dbVars, http, svc, pending, authVars>>

\* The exp of the token passes.
TokenExpires ==
    /\ tok # NoToken
    /\ ~tok.expired
    /\ tok' = [tok EXCEPT !.expired = TRUE]
    /\ UNCHANGED <<analysisVars, dbVars, http, svc, pending, authVars, tokres>>

\* get_user_from_token(token)
CallGetUserFromToken ==
    /\ tok # NoToken
    /\ tokres' = TokenReturn("get_user_from_token", tok, GetUserFromToken(tok))
    /\ UNCHANGED <<analysisVars, dbVars, http, svc, pending, authVars, tok>>

\* refresh_access_token(refresh_token); the client keeps the new token.
CallRefreshAccessToken ==
    /\ tok # NoToken
    /\ LET new_access_token == RefreshAccessToken(tok)
       IN  /\ tokres' = TokenReturn("refresh_access_token", tok, new_access_token)
           /\ tok' = IF new_access_token = NoToken THEN tok ELSE new_access_token
    /\ UNCHANGED <<analysisVars, dbVars, http, svc, pending, authVars>>

\* The client holds a token it did not get from this server's functions.
PresentToken ==
    /\ \E token \in GoodTokens \cup BadTokens : tok' = token
    /\ UNCHANGED <<analysisVars, dbVars, http, svc, pending, authVars, tokres>>

NextToken ==
    \/ PresentToken
    \/ CallCreateAccessToken
    \/ CallCreateRefreshToken
    \/ TokenExpires
    \/ CallGetUserFromToken
    \/ CallRefreshAccessToken

SpecToken == InitService /\ [][NextToken]_vars

(***************************************************************************)
(* Claim about the token types.                                            *)
(***************************************************************************)
Decodes(token) ==
    token.key = SecretKey /\ token.alg = Algorithm /\ ~token.expired

C10_TypesKept ==
    /\ tokres.op = "create_access_token" => tokres.value.type = "access"
    /\ tokres.op = "create_refresh_token" => tokres.value.type = "refresh"
    /\ (tokres.op = "get_user_from_token" /\ tokres.token.type = "refresh") =>
           tokres.value = NoUser
    /\ (tokres.op = "refresh_access_token" /\ tokres.token.type = "access") =>
           tokres.value = NoToken

C10_Refreshed ==
    /\ tokres.value # NoToken
    /\ Decodes(tokres.value)
    /\ tokres.value.type = "access"
    /\ tokres.value.sub = tokres.token.sub
    /\ tokres.value.email = tokres.token.email
    /\ tokres.value.role = tokres.token.role

\* C10 as stated: tokens of create_access_token have type access and tokens
\* of create_refresh_token type refresh whatever the data holds;
\* get_user_from_token answers None for a refresh token and
\* refresh_access_token None for an access token; refresh_access_token on
\* every refresh token that decodes returns an access token with the same
\* sub, email and role.
C10_TokenTypesAsStated ==
    /\ C10_TypesKept
    /\ (/\ tokres.op = "refresh_access_token"
        /\ Decodes(tokres.token)
        /\ tokres.token.type = "refresh") => C10_Refreshed

\* C10 amended: as above, with refresh_access_token returning the access
\* token for the refresh tokens that decode and carry a non-empty sub, and
\* None for every other token.
C10_TokenTypesNotInterchangeable ==
    /\ C10_TypesKept
    /\ tokres.op = "refresh_access_token" =>
           IF /\ Decodes(tokres.token)
              /\ tokres.token.type = "refresh"
              /\ tokres.token.sub \notin {"absent", ""}
           THEN C10_Refreshed
           ELSE tokres.value = NoToken

C10_Witness ==
    /\ tokres.op = "refresh_access_token"
    /\ tokres.token.type = "refresh"
    /\ tokres.token.sub = "u2"
    /\ tokres.value # NoToken
    /\ tokres.value.type = "access"
    /\ tokres.value.sub = "u2"
    /\ tok = tokres.value

(***************************************************************************)
(* ConversationService.get_user_progress over stored rows (SpecProgress).  *)
(***************************************************************************)
\* The scores of the i-th stored evaluation.
StoredAnalysis(i, p) ==
    LET g == (i * p) % 26
        v == (i \div 3) % 21
        f == (i + p) % 21
        c == (2 * i) % 21
    IN  [overall_score |-> g + v + f + c, grammar_score |-> g,
         vocabulary_score |-> v, fluency_score |-> f, pronunciation_score |-> 0,
         comprehension_score |-> c,
         proficiency_level |-> IF i % 4 = 0 THEN ""
                               ELSE IF i % 2 = 0 THEN "B2" ELSE "C1"]

\* Conversations 1 and 2 are of u1, conversation 3 is of u2.
StoredConversations(nc) ==
    {NewConversation(id, IF id = 3 THEN "u2" ELSE "u1", id) : id \in 1..nc}

\* The i-th evaluation is of conversation 3 when i = 3 and that conversation
\* exists, and of conversation 1 or 2 otherwise.
StoredEvaluations(nc, ne, p) ==
    {NewEvaluation(i,
                   [id |-> IF i = 3 /\ nc = 3 THEN 3 ELSE (i % Min2(nc, 2)) + 1],
                   "u1", i, StoredAnalysis(i, p)) : i \in 1..ne}

InitProgress ==
    /\ areq = [op |-> "none"]
    /\ ares = Pending
    /\ \E nc \in 0..MaxRows, ne \in 0..MaxEvals, p \in 1..3 :
           /\ nc = 0 => ne = 0
           /\ conversations = StoredConversations(nc)
           /\ evaluations = StoredEvaluations(nc, ne, p)
           /\ rows = nc
    /\ uploads = {}
    /\ http = NoCall
    /\ svc = NoCall
    /\ pending = EmptyBag
    /\ users = {}
    /\ clock = 1
    /\ authres = NoCall
    /\ tok = NoToken
    /\ tokres = NoCall

NextProgress == SvcCallGetUserProgress \/ GetUserProgressQuery

SpecProgress == InitProgress /\ [][NextProgress]_vars

(***************************************************************************)
(* Claim about get_user_progress.                                          *)
(***************************************************************************)
C11_Mine == {c \in conversations : c.user_id = svc.user_id}

C11_Evaluations ==
    {e \in evaluations : \E c \in C11_Mine : c.id = e.conversation_id}

\* 1 for the most recently created evaluation, 2 for the one before, ...
C11_Rank(e) ==
    Cardinality({x \in C11_Evaluations : x.created_at > e.created_at}) + 1

C11_Sum == SumOverall(C11_Evaluations)

C11_Grammar(e) == e.grammar_score
C11_Vocabulary(e) == e.vocabulary_score
C11_Fluency(e) == e.fluency_score
C11_Pronunciation(e) == e.pronunciation_score
C11_Comprehension(e) == e.comprehension_score

C11_TrendIs(trend, Score(_)) ==
    /\ Len(trend) = Min2(Cardinality(C11_Evaluations), 10)
    /\ \A e \in C11_Evaluations :
           C11_Rank(e) <= 10 => trend[C11_Rank(e)] = Score(e)

C11_CountAndTrends ==
    /\ svc.value.total_conversations = Cardinality(C11_Mine)
    /\ C11_TrendIs(svc.value.grammar_trend, C11_Grammar)
    /\ C11_TrendIs(svc.value.vocabulary_trend, C11_Vocabulary)
    /\ C11_TrendIs(svc.value.fluency_trend, C11_Fluency)
    /\ C11_TrendIs(svc.value.pronunciation_trend, C11_Pronunciation)
    /\ C11_TrendIs(svc.value.comprehension_trend, C11_Comprehension)

C11_Answered == svc.op = "get_user_progress" /\ svc.db_ok

C11_Failed == svc.op = "get_user_progress" /\ ~svc.db_ok

\* C11 as stated: total_conversations counts the user's conversations,
\* current_level is the level of the most recently created evaluation (A1
\* when there is none), average_score is the mean of overall_score (0 when
\* there is none), every trend holds the scores of at most the 10 most recent
\* evaluations, newest first; when a query raises the default record is
\* returned.
C11_ProgressAsStated ==
    /\ C11_Failed => svc.value = DefaultProgress
    /\ C11_Answered =>
           /\ C11_CountAndTrends
           /\ svc.value.current_level =
                  IF C11_Evaluations = {} THEN "A1"
                  ELSE (CHOOSE e \in C11_Evaluations : C11_Rank(e) = 1).proficiency_level
           /\ svc.value.average_score_x100 * Cardinality(C11_Evaluations)
                  = 100 * C11_Sum

\* C11 amended: as above, with average_score the mean rounded to two
\* decimals (the tie to the even hundredth) and current_level A1 also when
\* the most recent evaluation has an empty level.
C11_ProgressOfStoredRows ==
    /\ C11_Failed => svc.value = DefaultProgress
    /\ C11_Answered =>
           /\ C11_CountAndTrends
           /\ svc.value.current_level =
                  IF C11_Evaluations = {} THEN "A1"
                  ELSE LET latest == CHOOSE e \in C11_Evaluations : C11_Rank(e) = 1
                       IN  IF latest.proficiency_level = "" THEN "A1"
                           ELSE latest.proficiency_level
           /\ LET n == Cardinality(C11_Evaluations)
                  d == 100 * C11_Sum - n * svc.value.average_score_x100
              IN  /\ -n <= 2 * d /\ 2 * d <= n
                  /\ (2 * d = n \/ 2 * d = -n) =>
                         svc.value.average_score_x100 % 2 = 0

C11_Witness ==
    /\ C11_Answered
    /\ Cardinality(C11_Evaluations) = 11
    /\ Len(svc.value.grammar_trend) = 10
    /\ svc.value.total_conversations = 2
    /\ svc.value.current_level = "A1"
    /\ svc.value.average_score_x100 % 100 # 0

(***************************************************************************)
(* GPTAnalysisService.generate_conversation_response (SpecResponse).       *)
(***************************************************************************)
CefrLevels == {"A1", "A2", "B1", "B2", "C1", "C2"}

\* analysis.proficiency_level is analysis_data.get('proficiency_level', 'A1')
\* of the parsed GPT reply: a CEFR level, another str, null (None), or a
\* JSON array or object (a list or dict, which cannot be hashed).
ResponseLevels == CefrLevels \cup {"X9", "None", "unhashable"}

\* str.lower
Lower(topic) == IF topic = "Travel" THEN "travel" ELSE topic

\* analysis.strengths and analysis.areas_for_improvement are
\* analysis_data.get(..., []) of the parsed GPT reply, which the dataclass
\* GPTAnalysisResult takes as they come: a list of str, a list of numbers, a
\* str, or null (None).
Analyses ==
    LET values == {"list_of_str", "list_of_numbers", "str", "None"}
    IN  [proficiency_level : ResponseLevels, strengths : values,
         areas_for_improvement : values]

\* ', '.join(value[:2]), _create_conversation_prompt lines 298-299: a list
\* of str and a str are sliced and joined; None cannot be sliced and numbers
\* cannot be joined (TypeError).
JoinFirstTwo(value) ==
    IF value \in {"list_of_str", "str"} THEN "none" ELSE "TypeError"

\* client.chat.completions.create raises, or returns a content, no content
\* (None) or no choice at all.
ChatReplies == {"raises", "content", "no_content", "no_choices"}

Response(exc, kind, level, topic) ==
    [exc |-> exc, kind |-> kind, level |-> level, topic |-> topic]

\* _fallback_response: responses.get(proficiency_level, generic); dict.get
\* raises TypeError for a key that cannot be hashed.
FallbackResponse(analysis, topic) ==
    IF analysis.proficiency_level = "unhashable"
    THEN Response("TypeError", "none", "", "")
    ELSE IF analysis.proficiency_level \in CefrLevels
    THEN Response("none", "fallback", analysis.proficiency_level, Lower(topic))
    ELSE Response("none", "generic", "", Lower(topic))

\* The try body of generate_conversation_response, lines 273-288.
ResponseTryBody(analysis, chat) ==
    IF JoinFirstTwo(analysis.strengths) # "none"
    THEN Response(JoinFirstTwo(analysis.strengths), "none", "", "")
    ELSE IF JoinFirstTwo(analysis.areas_for_improvement) # "none"
    THEN Response(JoinFirstTwo(analysis.areas_for_improvement), "none", "", "")
    ELSE IF chat = "raises" THEN Response("APIError", "none", "", "")
    ELSE IF chat = "no_choices" THEN Response("IndexError", "none", "", "")
    ELSE IF chat = "no_content" THEN Response("AttributeError", "none", "", "")
    ELSE Response("none", "gpt", "", "")

\* GPTAnalysisService.generate_conversation_response
GenerateConversationResponse(settings, analysis, topic, chat) ==
    IF ~GptClient(settings) THEN FallbackResponse(analysis, topic)
    ELSE LET r == ResponseTryBody(analysis, chat)
         IN  IF r.exc = "none" THEN r ELSE FallbackResponse(analysis, topic)

ResponseRequests ==
    {[op |-> "generate_response", settings |-> s, analysis |-> a, topic |-> t,
      chat |-> c] :
        s \in SettingsSet, a \in Analyses, t \in {"Travel", "food"}, c \in ChatReplies}

\* A call of gpt_service.generate_conversation_response.
GenerateResponse ==
    /\ areq.op = "generate_response"
    /\ ares = Pending
    /\ LET r == GenerateConversationResponse(areq.settings, areq.analysis,
                                             areq.topic, areq.chat)
       IN  ares' = Outcome("generate_response", 0, r.exc, r)
    /\ UNCHANGED <<areq, dbVars, http, svc, pending, authVars, tokenVars>>

InitResponse ==
    /\ areq \in ResponseRequests
    /\ ares = Pending
    /\ InitDb

NextResponse == GenerateResponse

SpecResponse == InitResponse /\ [][NextResponse]_vars

(***************************************************************************)
(* Claim about generate_conversation_response.                             *)
(***************************************************************************)
C13_FallbackCase ==
    \/ ~(areq.settings.openai_available /\ areq.settings.api_key)
    \/ areq.chat = "raises"

\* C13: generate_conversation_response never raises; when the client is not
\* initialised or the API call raises it returns the fallback response of
\* analysis.proficiency_level for A1..C2 and the generic response for any
\* other level value.
C13_ResponseNeverRaises ==
    ares.op = "generate_response" =>
        /\ ares.exc = "none"
        /\ C13_FallbackCase =>
               IF areq.analysis.proficiency_level \in CefrLevels
               THEN /\ ares.result.kind = "fallback"
                    /\ ares.result.level = areq.analysis.proficiency_level
               ELSE ares.result.kind = "generic"

(***************************************************************************)
(* LLaMAAnalysisService._fallback_evaluation on two transcripts            *)
(* (SpecFallback).                                                         *)
(***************************************************************************)
\* A transcript with the number of words it was built from.
CountedTranscripts ==
    {[text |-> Plain(n), words |-> n] : n \in 0..MaxWords}
    \cup {[text |-> Padded(n), words |-> n] : n \in 0..MaxWords}

FallbackRequests ==
    {[op |-> "fallback_evaluation", first |-> a, second |-> b] :
        a \in CountedTranscripts, b \in CountedTranscripts}

\* _fallback_evaluation(first transcript)
CallFallbackEvaluation ==
    /\ areq.op = "fallback_evaluation"
    /\ ares = Pending
    /\ ares' = Outcome("fallback_evaluation", 0, "none",
                       <<FallbackEvaluation(areq.first.text)>>)
    /\ UNCHANGED <<areq, dbVars, http, svc, pending, authVars, tokenVars>>

\* _fallback_evaluation(second transcript), after the first call
CallFallbackEvaluationAgain ==
    /\ ares.op = "fallback_evaluation"
    /\ Len(ares.result) = 1
    /\ ares' = [ares EXCEPT !.result =
                   Append(@, FallbackEvaluation(areq.second.text))]
    /\ UNCHANGED <<areq, dbVars, http, svc, pending, authVars, tokenVars>>

InitFallback ==
    /\ areq \in FallbackRequests
    /\ ares = Pending
    /\ InitDb

NextFallback == CallFallbackEvaluation \/ CallFallbackEvaluationAgain

SpecFallback == InitFallback /\ [][NextFallback]_vars

(***************************************************************************)
(* Claims about _fallback_evaluation.                                      *)
(***************************************************************************)
C14_Base(n) ==
    IF n < 2 THEN 1 ELSE IF n < 5 THEN 3 ELSE IF n < 10 THEN 8 ELSE 15

C14_ScoresOf(e, n) ==
    /\ e.exc = "none"
    /\ e.grammar_score = C14_Base(n)
    /\ e.vocabulary_score = C14_Base(n)
    /\ e.fluency_score = C14_Base(n)
    /\ e.comprehension_score = C14_Base(n)
    /\ e.overall_score = 4 * C14_Base(n)
    /\ e.proficiency_level = IF n < 5 THEN "A1" ELSE "B1"

C14_NotAbove(e1, e2) ==
    /\ e1.grammar_score <= e2.grammar_score
    /\ e1.vocabulary_score <= e2.vocabulary_score
    /\ e1.fluency_score <= e2.fluency_score
    /\ e1.comprehension_score <= e2.comprehension_score
    /\ e1.overall_score <= e2.overall_score

C14_Called == ares.op = "fallback_evaluation"

C14_CalledTwice == ares.op = "fallback_evaluation" /\ Len(ares.result) = 2

\* C14: _fallback_evaluation gives each of the four scores the base score of
\* the word count n (1 if n < 2, 3 if n < 5, 8 if n < 10, 15 otherwise), an
\* overall score of four times the base and the level A1 if n < 5, B1
\* otherwise; the scores never decrease when n grows.
C14_FallbackScoresByWordCount ==
    /\ C14_Called => C14_ScoresOf(ares.result[1], areq.first.words)
    /\ C14_CalledTwice =>
           /\ C14_ScoresOf(ares.result[2], areq.second.words)
           /\ areq.first.words <= areq.second.words =>
                  C14_NotAbove(ares.result[1], ares.result[2])

C14_Witness ==
    /\ C14_CalledTwice
    /\ areq.first.words = 9
    /\ areq.second.words = 10
    /\ ares.result[1].overall_score = 32
    /\ ares.result[2].overall_score = 60
    /\ ares.result[1].proficiency_level = "B1"

C15_SameResult ==
    (C14_CalledTwice /\ areq.first.words = areq.second.words) =>
        ares.result[1] = ares.result[2]

C15_NoStateTouched ==
    UNCHANGED <<areq, dbVars, http, svc, pending, authVars, tokenVars>>

\* C15: the whole result of _fallback_evaluation is a function of the word
\* count: two calls on the same transcript, or on two transcripts with the
\* same number of words, return identical results, and a call changes
\* nothing but its own result.
C15_FallbackDeterministic ==
    []C15_SameResult /\ [][C15_NoStateTouched]_vars

C15_Witness ==
    /\ C14_CalledTwice
    /\ areq.first.words = areq.second.words
    /\ areq.first.text # areq.second.text
    /\ areq.first.words = 5
    /\ ares.result[1] = ares.result[2]
    /\ ares.result[2].evaluation_method = "Fallback"

====
